---- MODULE Spec2Model ----
(***************************************************************************)
(* Model of the leveraged-ETF trading bot in src/ter_main_us.py: the       *)
(* StatusManager (persisted status + virtual balance), the session gates   *)
(* and the phases A-D of strategy_thread.                                  *)
(*                                                                         *)
(* Units.  Profit rates are integers in hundredths of a percent (-5.0% is  *)
(* -500).  Times are integer seconds; the clock `now` counts seconds from  *)
(* Monday 00:00:00 New York time, so that the weekday and the HH:MM:SS of  *)
(* datetime.now(ny_tz) are functions of it.                                *)
(***************************************************************************)
EXTENDS Integers, Sequences, FiniteSets, TLC

VARIABLES
    data,          \* StatusManager.data: the dict loaded from / saved to STATUS_FILE
    disk,          \* the content of STATUS_FILE
    pending_buys,  \* StatusManager.pending_buys: symbol -> {qty, time, initial_qty}
    now,           \* the clock (time.time() and datetime.now(ny_tz))
    lock,          \* StatusManager.lock: "free" or the thread holding it
    pc,            \* per thread: where it is (in a StatusManager call, in the tick loop)
    loc,           \* strategy_thread's locals of the current loop iteration
    prev_holdings_snapshot,  \* strategy_thread: symbol -> qty seen by the previous iteration
    ticks,         \* the number of loop iterations begun
    trace,         \* observation: the gateway calls and evaluations of the current iteration
    ret,           \* observation: the last completed StatusManager call
    reads,         \* observation: per symbol, the last get_max_profit value since its last reset
    epoch          \* observation: per symbol, the last record_pending_buy and whether it ended

trackVars == <<data, disk, pending_buys>>
obsVars == <<ret, reads, epoch>>
thrVars == <<lock, pc>>
engVars == <<loc, prev_holdings_snapshot, ticks, trace>>
vars == <<data, disk, pending_buys, now, lock, pc, loc, prev_holdings_snapshot, ticks, trace,
          ret, reads, epoch>>

(***************************************************************************)
(* Python dicts: a function whose DOMAIN is the set of keys present.       *)
(***************************************************************************)
EmptyDict == [k \in {} |-> 0]
Get(f, k, dflt) == IF k \in DOMAIN f THEN f[k] ELSE dflt
Put(f, k, v) == [x \in DOMAIN f \cup {k} |-> IF x = k THEN v ELSE f[x]]
Del(f, k) == [x \in DOMAIN f \ {k} |-> f[x]]

(***************************************************************************)
(* Configuration and program constants.                                    *)
(***************************************************************************)
TARGETS == << [symbol |-> "TQQQ", exch |-> "NASD"], [symbol |-> "SOXL", exch |-> "AMEX"] >>
Symbols == {TARGETS[i].symbol : i \in DOMAIN TARGETS}

ReadDefault == 0          \* get_max_profit: .get(symbol, 0.0)
UpdateDefault == -99900   \* update_max_profit: .get(symbol, -999.0)
PendingTimeout == 600     \* get_virtual_qty: time.time() - info['time'] > 600
IgnoreDuration == 3600    \* set_ignore_sync(symbol, duration=3600)

(***************************************************************************)
(* The status file.  _load: a missing or unreadable file gives the         *)
(* defaults.  _save: the write either succeeds, fails before the file is   *)
(* touched (open() raises), or fails after open(file, 'w') truncated it    *)
(* (json.dump raises); every exception is swallowed.                       *)
(***************************************************************************)
DefaultData == [phase_a_done |-> FALSE, max_profit |-> EmptyDict, ignore_list |-> EmptyDict]
Missing == [kind |-> "missing"]
Corrupt == [kind |-> "corrupt"]
Stored(d) == [kind |-> "ok", content |-> d]
SaveOutcomes == {"ok", "open_fails", "dump_fails"}

_load(dk) == IF dk.kind = "ok" THEN dk.content ELSE DefaultData

_save(m, o) ==
    CASE o = "ok" -> [m EXCEPT !.disk = Stored(m.data)]
      [] o = "open_fails" -> m
      [] o = "dump_fails" -> [m EXCEPT !.disk = Corrupt]

(***************************************************************************)
(* StatusManager methods, each the body run under `with self.lock`.  m is  *)
(* the manager [data, disk, pending_buys]; t is time.time(); o is the      *)
(* outcome of the _save the method may make.                               *)
(***************************************************************************)
Mgr == [data |-> data, disk |-> disk, pending_buys |-> pending_buys]
SetMgr(m) == data' = m.data /\ disk' = m.disk /\ pending_buys' = m.pending_buys

record_pending_buy(m, symbol, qty, current_qty, t) ==
    [m EXCEPT !.pending_buys =
        Put(@, symbol, [qty |-> qty, time |-> t, initial_qty |-> current_qty])]

\* Mutant of get_virtual_qty: the timeout test written >= instead of >.
get_virtual_qty_timeout_ge(m, symbol, current_qty, t) ==
    IF symbol \notin DOMAIN m.pending_buys
    THEN [m |-> m, val |-> current_qty, log |-> "none"]
    ELSE LET info == m.pending_buys[symbol]
             dropped == [m EXCEPT !.pending_buys = Del(@, symbol)]
         IN IF current_qty > info.initial_qty
            THEN [m |-> dropped, val |-> current_qty, log |-> "synced"]
            ELSE IF t - info.time >= PendingTimeout
            THEN [m |-> dropped, val |-> current_qty, log |-> "timeout"]
            ELSE [m |-> m, val |-> current_qty + info.qty, log |-> "none"]

\* Mutant of get_virtual_qty: a confirmed entry is reported but not deleted.
get_virtual_qty_keeps_entry(m, symbol, current_qty, t) ==
    IF symbol \notin DOMAIN m.pending_buys
    THEN [m |-> m, val |-> current_qty, log |-> "none"]
    ELSE LET info == m.pending_buys[symbol]
             dropped == [m EXCEPT !.pending_buys = Del(@, symbol)]
         IN IF current_qty > info.initial_qty
            THEN [m |-> m, val |-> current_qty, log |-> "synced"]
            ELSE IF t - info.time > PendingTimeout
            THEN [m |-> dropped, val |-> current_qty, log |-> "timeout"]
            ELSE [m |-> m, val |-> current_qty + info.qty, log |-> "none"]

\* The result is [m, val, log]: the manager afterwards, the returned quantity and
\* which message was logged ("synced", "timeout" or "none").
get_virtual_qty(m, symbol, current_qty, t) ==
    IF symbol \notin DOMAIN m.pending_buys
    THEN [m |-> m, val |-> current_qty, log |-> "none"]
    ELSE LET info == m.pending_buys[symbol]
             dropped == [m EXCEPT !.pending_buys = Del(@, symbol)]
         IN IF current_qty > info.initial_qty
            THEN [m |-> dropped, val |-> current_qty, log |-> "synced"]
            ELSE IF t - info.time > PendingTimeout
            THEN [m |-> dropped, val |-> current_qty, log |-> "timeout"]
            ELSE [m |-> m, val |-> current_qty + info.qty, log |-> "none"]

get_max_profit(m, symbol) == Get(m.data["max_profit"], symbol, ReadDefault)

update_max_profit(m, symbol, rate, o) ==
    LET d1 == IF "max_profit" \notin DOMAIN m.data
              THEN Put(m.data, "max_profit", EmptyDict) ELSE m.data
        m1 == [m EXCEPT !.data = d1]
    IN IF rate > Get(d1["max_profit"], symbol, UpdateDefault)
       THEN _save([m1 EXCEPT !.data = Put(d1, "max_profit", Put(d1["max_profit"], symbol, rate))], o)
       ELSE m1

reset_max_profit(m, symbol, o) ==
    IF "max_profit" \in DOMAIN m.data /\ symbol \in DOMAIN m.data["max_profit"]
    THEN _save([m EXCEPT !.data = Put(@, "max_profit", Del(m.data["max_profit"], symbol))], o)
    ELSE m

set_phase_a_done(m, done, o) ==
    _save([m EXCEPT !.data = Put(@, "phase_a_done", done)], o)

reset_daily(m, o) ==
    LET d1 == Put(m.data, "phase_a_done", FALSE)
        d2 == Put(d1, "max_profit", EmptyDict)
        d3 == Put(d2, "ignore_list", EmptyDict)
    IN _save([m EXCEPT !.data = d3, !.pending_buys = EmptyDict], o)

set_ignore_sync(m, symbol, duration, t, o) ==
    LET d1 == IF "ignore_list" \notin DOMAIN m.data
              THEN Put(m.data, "ignore_list", EmptyDict) ELSE m.data
    IN _save([m EXCEPT !.data = Put(d1, "ignore_list", Put(d1["ignore_list"], symbol, t + duration))], o)

is_sync_ignored_never(m, symbol, t) == FALSE

is_sync_ignored(m, symbol, t) ==
    t < Get(Get(m.data, "ignore_list", EmptyDict), symbol, 0)

(***************************************************************************)
(* The StatusManager as an object: its public methods called one at a time *)
(* in any order with any arguments (each call runs under the lock, so a    *)
(* call is one step).  `ret` records what the last call was given and what *)
(* it returned; `reads` and `epoch` remember earlier calls.                *)
(***************************************************************************)
MaxQty == 1
MaxNow == 902
Rates == {-300, 200}
RealQtys == 0 .. MaxQty
BuyQtys == {10}
Delays == {300, 301}
DiskAtStart == {Missing, Corrupt, Stored(DefaultData)}
NoCall == [op |-> "none"]

Threads == {"strategy", "operator"}
Idle == [at |-> "idle"]

\* The locals before the first iteration, and between iterations.
NoLocals ==
    [stamp |-> 0, current_time |-> 0, gate |-> "none", ran |-> {},
     holdings |-> EmptyDict, cash |-> 0,
     curr_prices |-> EmptyDict, target_alloc2 |-> 0, buy_list |-> << >>]

InitTracker ==
    /\ lock = "free"
    /\ pc = [t \in Threads |-> Idle]
    /\ loc = NoLocals
    /\ prev_holdings_snapshot = EmptyDict
    /\ ticks = 0
    /\ trace = << >>
    /\ disk \in DiskAtStart
    /\ data = _load(disk)
    /\ pending_buys = EmptyDict
    /\ now = 0
    /\ ret = NoCall
    /\ reads = EmptyDict
    /\ epoch = EmptyDict

GetMaxProfit(s) ==
    LET v == get_max_profit(Mgr, s)
    IN /\ ret' = [op |-> "get_max_profit", symbol |-> s, val |-> v]
       /\ reads' = Put(reads, s, v)
       /\ UNCHANGED <<data, disk, pending_buys, now, epoch, thrVars, engVars>>

UpdateMaxProfit(s, r, o) ==
    /\ SetMgr(update_max_profit(Mgr, s, r, o))
    /\ ret' = [op |-> "update_max_profit", symbol |-> s, rate |-> r]
    /\ UNCHANGED <<now, reads, epoch, thrVars, engVars>>

ResetMaxProfit(s, o) ==
    /\ SetMgr(reset_max_profit(Mgr, s, o))
    /\ ret' = [op |-> "reset_max_profit", symbol |-> s]
    /\ reads' = Del(reads, s)
    /\ UNCHANGED <<now, epoch, thrVars, engVars>>

SetPhaseADone(o) ==
    /\ SetMgr(set_phase_a_done(Mgr, TRUE, o))
    /\ ret' = [op |-> "set_phase_a_done"]
    /\ UNCHANGED <<now, reads, epoch, thrVars, engVars>>

SetIgnoreSync(s, o) ==
    /\ SetMgr(set_ignore_sync(Mgr, s, IgnoreDuration, now, o))
    /\ ret' = [op |-> "set_ignore_sync", symbol |-> s]
    /\ UNCHANGED <<now, reads, epoch, thrVars, engVars>>

IsSyncIgnored(s) ==
    /\ ret' = [op |-> "is_sync_ignored", symbol |-> s, val |-> is_sync_ignored(Mgr, s, now)]
    /\ UNCHANGED <<data, disk, pending_buys, now, reads, epoch, thrVars, engVars>>

ResetDaily(o) ==
    /\ SetMgr(reset_daily(Mgr, o))
    /\ ret' = [op |-> "reset_daily"]
    /\ reads' = EmptyDict
    /\ epoch' = [s \in DOMAIN epoch |-> [epoch[s] EXCEPT !.cleared = TRUE]]
    /\ UNCHANGED <<now, thrVars, engVars>>

RecordPendingBuy(s, q, cur) ==
    /\ SetMgr(record_pending_buy(Mgr, s, q, cur, now))
    /\ ret' = [op |-> "record_pending_buy", symbol |-> s, qty |-> q, real |-> cur]
    /\ epoch' = Put(epoch, s, [qty |-> q, q0 |-> cur, t0 |-> now, ended |-> FALSE, cleared |-> FALSE])
    /\ UNCHANGED <<now, reads, thrVars, engVars>>

\* `ends`: this is a call at which real > q0 or now - t0 > 600 for the symbol's last
\* record_pending_buy; `ended`: an earlier call was one.
GetVirtualQty(s, cur) ==
    LET r == get_virtual_qty(Mgr, s, cur, now)
        rec == s \in DOMAIN epoch
        ends == rec /\ (cur > epoch[s].q0 \/ now - epoch[s].t0 > PendingTimeout)
    IN /\ SetMgr(r.m)
       /\ ret' = [op |-> "get_virtual_qty", symbol |-> s, real |-> cur, t |-> now,
                  val |-> r.val, log |-> r.log,
                  had |-> s \in DOMAIN pending_buys,
                  pre |-> Get(pending_buys, s, [qty |-> 0, time |-> 0, initial_qty |-> 0]),
                  post |-> r.m.pending_buys,
                  others |-> \A x \in Symbols \ {s} :
                               /\ (x \in DOMAIN pending_buys) = (x \in DOMAIN r.m.pending_buys)
                               /\ x \in DOMAIN pending_buys => r.m.pending_buys[x] = pending_buys[x],
                  recorded |-> rec,
                  qty |-> IF rec THEN epoch[s].qty ELSE 0,
                  q0 |-> IF rec THEN epoch[s].q0 ELSE 0,
                  ended |-> rec /\ epoch[s].ended,
                  ends |-> ends,
                  cleared |-> rec /\ epoch[s].cleared]
       /\ epoch' = IF ends THEN Put(epoch, s, [epoch[s] EXCEPT !.ended = TRUE]) ELSE epoch
       /\ UNCHANGED <<now, reads, thrVars, engVars>>

Advance(d) ==
    /\ now + d <= MaxNow
    /\ now' = now + d
    /\ UNCHANGED <<data, disk, pending_buys, ret, reads, epoch, thrVars, engVars>>

(***************************************************************************)
(* SpecStatus: the methods over the persisted status (the high-water mark, *)
(* the phase-A flag, the ignore windows, the daily reset) at one instant.  *)
(***************************************************************************)
NextStatus ==
    \/ \E s \in Symbols : GetMaxProfit(s)
    \/ \E s \in Symbols, r \in Rates, o \in SaveOutcomes : UpdateMaxProfit(s, r, o)
    \/ \E s \in Symbols, o \in SaveOutcomes : ResetMaxProfit(s, o)
    \/ \E o \in SaveOutcomes : SetPhaseADone(o)
    \/ \E s \in Symbols, o \in SaveOutcomes : SetIgnoreSync(s, o)
    \/ \E s \in Symbols : IsSyncIgnored(s)
    \/ \E o \in SaveOutcomes : ResetDaily(o)

SpecStatus == InitTracker /\ [][NextStatus]_vars

\* C1: for every symbol the value returned by get_max_profit never decreases from
\* one read to the next, whatever update_max_profit calls lie between (also when
\* the earlier read came before the first update), unless reset_max_profit(symbol)
\* or reset_daily() lies between.  (`reads` forgets a symbol at each reset.)
C1_MaxProfitNeverDecreases ==
    [][\A s \in Symbols :
          (s \in DOMAIN reads /\ s \in DOMAIN reads') => reads'[s] >= reads[s]]_vars

\* C5: no mutation of the tracker applies partially: a call that changed the
\* in-memory status or the status file leaves the file holding exactly the
\* in-memory status (both new); otherwise both are what they were (both old).
C5_NoPartialApply ==
    [][(data' /= data \/ disk' /= disk) => disk' = Stored(data')]_vars

(***************************************************************************)
(* SpecVirtual: the virtual-balance methods, the daily reset and the clock.*)
(***************************************************************************)
NextVirtual ==
    \/ \E s \in Symbols, q \in BuyQtys, cur \in RealQtys : RecordPendingBuy(s, q, cur)
    \/ \E s \in Symbols, cur \in RealQtys : GetVirtualQty(s, cur)
    \/ \E o \in SaveOutcomes : ResetDaily(o)
    \/ \E d \in Delays : Advance(d)

SpecVirtual == InitTracker /\ [][NextVirtual]_vars

\* C3: get_virtual_qty(symbol, real) returns real and leaves the ledger alone when
\* the symbol has no pending entry; returns real and removes the entry when real is
\* above the entry's snapshot (tested first); returns real and removes the entry
\* when more than 600 s passed since submission (at exactly 600 s it is still live);
\* otherwise returns real + pending.qty and keeps the entry.  Other symbols'
\* entries are never touched and the result is real or real + pending.qty.
C3_VirtualQty ==
    ret.op = "get_virtual_qty" =>
        /\ ret.others
        /\ ret.val \in {ret.real, ret.real + ret.pre.qty}
        /\ IF ~ret.had
           THEN ret.val = ret.real /\ ret.symbol \notin DOMAIN ret.post /\ ret.log = "none"
           ELSE IF ret.real > ret.pre.initial_qty
           THEN ret.val = ret.real /\ ret.symbol \notin DOMAIN ret.post /\ ret.log = "synced"
           ELSE IF ret.t - ret.pre.time > 600
           THEN ret.val = ret.real /\ ret.symbol \notin DOMAIN ret.post /\ ret.log = "timeout"
           ELSE /\ ret.val = ret.real + ret.pre.qty
                /\ ret.symbol \in DOMAIN ret.post
                /\ ret.post[ret.symbol] = ret.pre
                /\ ret.log = "none"

\* C3 witness: a call exactly 600 s after submission, unconfirmed: still inflated.
C3_Witness ==
    /\ ret.op = "get_virtual_qty" /\ ret.had
    /\ ret.t - ret.pre.time = 600
    /\ ret.real <= ret.pre.initial_qty
    /\ ret.val = ret.real + 10

\* C4 as claimed: after record_pending_buy(symbol, qty, q0) at t0 every
\* get_virtual_qty(symbol, real) returns real + qty until the first call at which
\* real > q0 or now - t0 > 600; from that call on every call returns real, until
\* the next record_pending_buy for the symbol.
C4_InflatedUntilConfirmedOrExpired ==
    (ret.op = "get_virtual_qty" /\ ret.recorded) =>
        IF ~ret.ended /\ ~ret.ends
        THEN ret.val = ret.real + ret.qty
        ELSE ret.val = ret.real

\* C4 amended: ... until the first call at which real > q0 or now - t0 > 600, or
\* until reset_daily() clears the ledger; from then on every call returns real,
\* until the next record_pending_buy for the symbol.
C4_InflatedUntilConfirmedExpiredOrReset ==
    (ret.op = "get_virtual_qty" /\ ret.recorded) =>
        IF ~ret.ended /\ ~ret.ends /\ ~ret.cleared
        THEN ret.val = ret.real + ret.qty
        ELSE ret.val = ret.real

\* C4 witness: a call after the confirming call, with real back at the snapshot or
\* below and the 600 s not over, returns real alone.
C4_Witness ==
    /\ ret.op = "get_virtual_qty" /\ ret.recorded /\ ~ret.cleared
    /\ ret.ended /\ ~ret.ends
    /\ ret.real <= ret.q0
    /\ ret.val = ret.real

(***************************************************************************)
(* SpecLock: the two threads of the process (strategy_thread and the       *)
(* operator's input loop) calling into the one StatusManager.  A call is   *)
(* three steps: `with self.lock` is entered, the body runs (its _save      *)
(* included), the block is left.  The strategy thread also assigns         *)
(* status_mgr.data["daily_reset_done"] directly, outside any method.       *)
(***************************************************************************)
StrategyCalls ==
    {[op |-> "update_max_profit", symbol |-> s, rate |-> r] : s \in Symbols, r \in {200}}
    \cup {[op |-> o, symbol |-> s] :
            o \in {"get_max_profit", "reset_max_profit", "set_ignore_sync",
                   "is_sync_ignored", "record_pending_buy", "get_virtual_qty"},
            s \in Symbols}
    \cup {[op |-> "set_phase_a_done"]}

\* cmd_manual_sell is the operator's only way into the StatusManager.
OperatorCalls == {[op |-> "set_ignore_sync", symbol |-> s] : s \in Symbols}

\* The body of call c on manager m, with o the outcome of its _save.
Body(m, c, o) ==
    CASE c.op = "update_max_profit" -> update_max_profit(m, c.symbol, c.rate, o)
      [] c.op = "reset_max_profit" -> reset_max_profit(m, c.symbol, o)
      [] c.op = "set_phase_a_done" -> set_phase_a_done(m, TRUE, o)
      [] c.op = "set_ignore_sync" -> set_ignore_sync(m, c.symbol, IgnoreDuration, now, o)
      [] c.op = "reset_daily" -> reset_daily(m, o)
      [] c.op = "record_pending_buy" -> record_pending_buy(m, c.symbol, 10, 0, now)
      [] c.op = "get_virtual_qty" -> get_virtual_qty(m, c.symbol, 0, now).m
      [] OTHER -> m

Enter(t, c) ==
    /\ pc[t].at = "idle"
    /\ lock = "free"
    /\ lock' = t
    /\ pc' = [pc EXCEPT ![t] = [at |-> "in", call |-> c]]
    /\ UNCHANGED <<data, disk, pending_buys, now, obsVars, engVars>>

StrategyEnter ==
    \E c \in StrategyCalls : Enter("strategy", c)

OperatorEnter ==
    \E c \in OperatorCalls : Enter("operator", c)

\* if not status_mgr.data.get("daily_reset_done"): status_mgr.reset_daily() ...
PostCloseEnter ==
    /\ ~Get(data, "daily_reset_done", FALSE)
    /\ Enter("strategy", [op |-> "reset_daily"])

Run(t, o) ==
    /\ pc[t].at = "in"
    /\ lock = t
    /\ SetMgr(Body(Mgr, pc[t].call, o))
    /\ pc' = [pc EXCEPT ![t] = [at |-> "out", call |-> pc[t].call]]
    /\ UNCHANGED <<now, lock, obsVars, engVars>>

\* A block that is left without the lock being released.
Leave_keeps_lock(t) ==
    /\ pc[t].at = "out"
    /\ lock = t
    /\ lock' = lock
    /\ pc' = [pc EXCEPT ![t] = IF pc[t].call.op = "reset_daily" THEN [at |-> "mark"] ELSE Idle]
    /\ UNCHANGED <<data, disk, pending_buys, now, obsVars, engVars>>

Leave(t) ==
    /\ pc[t].at = "out"
    /\ lock = t
    /\ lock' = "free"
    /\ pc' = [pc EXCEPT ![t] = IF pc[t].call.op = "reset_daily" THEN [at |-> "mark"] ELSE Idle]
    /\ UNCHANGED <<data, disk, pending_buys, now, obsVars, engVars>>

\* ... status_mgr.data["daily_reset_done"] = True
MarkDailyResetDone ==
    /\ pc["strategy"].at = "mark"
    /\ data' = Put(data, "daily_reset_done", TRUE)
    /\ pc' = [pc EXCEPT !["strategy"] = Idle]
    /\ UNCHANGED <<disk, pending_buys, now, lock, obsVars, engVars>>

\* if status_mgr.data.get("daily_reset_done"): status_mgr.data["daily_reset_done"] = False
RearmDailyReset ==
    /\ pc["strategy"].at = "idle"
    /\ Get(data, "daily_reset_done", FALSE)
    /\ data' = Put(data, "daily_reset_done", FALSE)
    /\ UNCHANGED <<disk, pending_buys, now, lock, pc, obsVars, engVars>>

NextLock ==
    \/ StrategyEnter
    \/ OperatorEnter
    \/ PostCloseEnter
    \/ \E t \in Threads, o \in SaveOutcomes : Run(t, o)
    \/ \E t \in Threads : Leave(t)
    \/ MarkDailyResetDone
    \/ RearmDailyReset

SpecLock == InitTracker /\ [][NextLock]_vars

\* C6 (first half): every write to the shared state - a field of the persisted
\* status or the pending-buy ledger - by either thread happens while that thread
\* holds the StatusManager lock.
C6_WritesUnderLock ==
    [][(data' /= data \/ pending_buys' /= pending_buys)
          => (lock \in Threads /\ lock' = lock /\ pc[lock].at = "in")]_vars

\* C6 (second half): when a thread releases the lock, every persisted field it
\* wrote while holding it is in the status file.
C6_FlushedBeforeRelease ==
    [][(lock \in Threads /\ lock' = "free"
          /\ pc[lock].call.op \in {"update_max_profit", "reset_max_profit", "set_phase_a_done",
                                   "set_ignore_sync", "reset_daily"})
          => _load(disk) = data]_vars

(***************************************************************************)
(* The clock.  datetime.now(ny_tz).weekday() and the strftime strings are  *)
(* functions of `now`; "%H:%M" is modelled by the minute of the day and    *)
(* "%H:%M:%S" by the second of the day (zero-padded strings of one length  *)
(* compare as these numbers do).  Calls take no time; sleeps are exact.    *)
(***************************************************************************)
At(day, h, m, sec) == day * 86400 + h * 3600 + m * 60 + sec
HM(h, m) == h * 60 + m
weekday(t) == (t \div 86400) % 7
SecOfDay(t) == t % 86400
strftime_HM(t) == SecOfDay(t) \div 60

\* get_market_status: (is_open, current_time)
get_market_status(t) ==
    IF weekday(t) >= 5
    THEN [is_open |-> FALSE, current_time |-> strftime_HM(t)]
    ELSE [is_open |-> HM(9, 30) <= strftime_HM(t) /\ strftime_HM(t) < HM(16, 0),
          current_time |-> strftime_HM(t)]

\* The window tests of strategy_thread on current_time.
BeforeOpen_inclusive(ct) == ct <= HM(9, 30)
BeforeOpen(ct) == ct < HM(9, 30)
AfterClose(ct) == ct >= HM(16, 0)
InPhaseA(ct) == HM(9, 30) <= ct /\ ct < HM(9, 40)
InPhaseB(ct) == HM(9, 30) <= ct /\ ct < HM(15, 50)
InPhaseC(ct) == HM(15, 50) <= ct /\ ct < HM(16, 0)

(***************************************************************************)
(* The collaborators' answers, drawn anew at every call.  Prices are in    *)
(* cents; a price of NoPrice stands for None (the code tests `not curr`).  *)
(***************************************************************************)
NoPrice == 0
NoHist == [kind |-> "none"]
NoInds == [kind |-> "none"]

\* calculate_indicators: None below 120 bars; the rolling means, bands and ADX of a
\* long enough history are values the history carries.
calculate_indicators(hist) ==
    IF hist.kind = "none" \/ hist.len < 120 THEN NoInds
    ELSE [kind |-> "inds", SMA20 |-> hist.SMA20, SMA120 |-> hist.SMA120,
          BB_LOW |-> hist.BB_LOW, PREV_SMA20 |-> hist.PREV_SMA20,
          PREV_CLOSE |-> hist.PREV_CLOSE, TODAY_OPEN |-> hist.Open,
          ADX |-> hist.ADX, BB_UP |-> hist.BB_UP]

\* KisUS.cancel_all_orders: "nothing" - get_open_orders gave no order (there is none,
\* or the query failed); "cancelled" - every cancel request returned; "raises" - a
\* cancel request raised (requests.post is not guarded).
CancelOutcomes == {"nothing", "cancelled", "raises"}

\* What a gateway call appends to the observation.
Cancelled(tr, symbol, phase, c) ==
    Append(tr, [e |-> "cancel_all_orders", symbol |-> symbol, phase |-> phase, outcome |-> c])
Sent(tr, symbol, side, qty, price, why, ok, t) ==
    Append(tr, [e |-> "send_order", symbol |-> symbol, side |-> side, qty |-> qty,
                price |-> price, why |-> why, ok |-> ok, at |-> t])

(***************************************************************************)
(* strategy_thread: one loop iteration is a chain of steps.                *)
(***************************************************************************)
MaxTicks == 2
\* The saves the loop causes succeed here; failing saves are exercised under SpecStatus
\* and SpecLock.
EngineSaves == {"ok"}
SP == pc["strategy"]
Goto(st) == pc' = [pc EXCEPT !["strategy"] = st]
Top == [at |-> "top"]
Sleep(n) == now' = now + n

\* get_balance: the holdings the broker reports and the buyable cash; ({}, 0.0) when
\* the query fails.
Lot(q) == [qty |-> q, avg_price |-> 10000]
Balances ==
    {[holdings |-> EmptyDict, cash |-> 0],
     [holdings |-> EmptyDict, cash |-> 600000],
     [holdings |-> Put(EmptyDict, "TQQQ", Lot(1)), cash |-> 600000],
     [holdings |-> Put(EmptyDict, "TQQQ", Lot(3)), cash |-> 0],
     [holdings |-> Put(EmptyDict, "SOXL", Lot(1)), cash |-> 0],
     [holdings |-> [s \in Symbols |-> Lot(3)], cash |-> 600000]}

\* for sym in TARGETS: ... if current_qty > prev_qty: status_mgr.reset_max_profit(symbol)
RECURSIVE detect_external(_, _, _, _, _)
detect_external(k, m, snap, holdings, os) ==
    IF k > Len(TARGETS) THEN [m |-> m, snap |-> snap]
    ELSE LET symbol == TARGETS[k].symbol
             current_qty == IF symbol \in DOMAIN holdings THEN holdings[symbol].qty ELSE 0
             prev_qty == Get(snap, symbol, 0)
             m1 == IF current_qty > prev_qty THEN reset_max_profit(m, symbol, os[symbol]) ELSE m
         IN detect_external(k + 1, m1, Put(snap, symbol, current_qty), holdings, os)

\* now_ny = datetime.now(ny_tz); current_time = now_ny.strftime("%H:%M")
Begin ==
    /\ SP.at = "top"
    /\ ticks < MaxTicks
    /\ ticks' = ticks + 1
    /\ trace' = << >>

Stamped(gate) ==
    [NoLocals EXCEPT !.stamp = now, !.current_time = strftime_HM(now), !.gate = gate]

\* if now_ny.weekday() >= 5: ... time.sleep(60); continue
WeekendGate ==
    /\ weekday(now) >= 5
    /\ loc' = Stamped("weekend")
    /\ Sleep(60)
    /\ UNCHANGED <<data, disk, pending_buys, lock, pc, prev_holdings_snapshot, obsVars>>

Weekend == Begin /\ WeekendGate

\* if current_time < "09:30": ... time.sleep(60); continue
PreMarketGate ==
    /\ weekday(now) < 5
    /\ BeforeOpen(strftime_HM(now))
    /\ loc' = Stamped("pre")
    /\ Sleep(60)
    /\ UNCHANGED <<data, disk, pending_buys, lock, pc, prev_holdings_snapshot, obsVars>>

PreMarket == Begin /\ PreMarketGate

\* if current_time >= "16:00": the daily reset, once; time.sleep(60); continue.
\* `ret` keeps the last reset_daily the loop invoked and when.
PostCloseGate ==
    /\ weekday(now) < 5
    /\ ~BeforeOpen(strftime_HM(now))
    /\ AfterClose(strftime_HM(now))
    /\ loc' = Stamped("post")
    /\ \E o \in EngineSaves :
          IF ~Get(data, "daily_reset_done", FALSE)
          THEN LET m == reset_daily(Mgr, o)
               IN /\ SetMgr([m EXCEPT !.data = Put(@, "daily_reset_done", TRUE)])
                  /\ ret' = [op |-> "reset_daily", at |-> now]
          ELSE UNCHANGED <<data, disk, pending_buys, ret>>
    /\ Sleep(60)
    /\ UNCHANGED <<lock, pc, prev_holdings_snapshot, reads, epoch>>

PostClose == Begin /\ PostCloseGate

rearm_never(d) == d

\* if status_mgr.data.get("daily_reset_done"): status_mgr.data["daily_reset_done"] = False
rearm(d) ==
    IF Get(d, "daily_reset_done", FALSE) THEN Put(d, "daily_reset_done", FALSE) ELSE d

\* Inside the session: re-arm the daily reset, get_balance (an answer of bs), external
\* trade detection.
SessionBody(bs) ==
    /\ weekday(now) < 5
    /\ ~BeforeOpen(strftime_HM(now))
    /\ ~AfterClose(strftime_HM(now))
    /\ \E b \in bs, os \in [Symbols -> EngineSaves] :
          LET r == detect_external(1, [Mgr EXCEPT !.data = rearm(data)], prev_holdings_snapshot,
                                   b.holdings, os)
          IN /\ SetMgr(r.m)
             /\ prev_holdings_snapshot' = r.snap
             /\ loc' = [Stamped("session") EXCEPT !.holdings = b.holdings, !.cash = b.cash]
    /\ Goto([at |-> "A0"])
    /\ UNCHANGED <<now, lock>>

SessionGate(bs) == SessionBody(bs) /\ UNCHANGED obsVars

Session == Begin /\ SessionGate(Balances)

\* An exception escaping a call of the loop body reaches the handler of the loop.
Raise == Goto([at |-> "except"]) /\ UNCHANGED now

Catch_exits ==
    /\ SP.at = "except"
    /\ Goto([at |-> "exited"])
    /\ UNCHANGED <<data, disk, pending_buys, now, lock, loc, prev_holdings_snapshot, ticks,
                   trace, obsVars>>

\* except Exception as e: ... time.sleep(60)
Catch ==
    /\ SP.at = "except"
    /\ Goto(Top)
    /\ Sleep(60)
    /\ loc' = NoLocals
    /\ trace' = << >>
    /\ UNCHANGED <<data, disk, pending_buys, lock, prev_holdings_snapshot, ticks, obsVars>>

\* time.sleep(60) at the end of the loop body
EndTick ==
    /\ SP.at = "end"
    /\ Goto(Top)
    /\ Sleep(60)
    /\ loc' = NoLocals
    /\ trace' = << >>
    /\ UNCHANGED <<data, disk, pending_buys, lock, prev_holdings_snapshot, ticks, obsVars>>

(***************************************************************************)
(* Phase A (09:30-09:40, once a day): the 50% take-profit at the upper     *)
(* band.  Phase B (09:30-15:50): stop-loss and trailing stop.              *)
(***************************************************************************)
\* What yfinance gives for a symbol: nothing, too few bars, or a year of bars.
Bars(n, v) ==
    [kind |-> "bars", len |-> n, SMA20 |-> v.SMA20, SMA120 |-> v.SMA120, BB_LOW |-> v.BB_LOW,
     BB_UP |-> v.BB_UP, PREV_SMA20 |-> v.PREV_SMA20, PREV_CLOSE |-> v.PREV_CLOSE,
     Open |-> v.Open, Low |-> v.Low, ADX |-> v.ADX]
CrossUp ==
    [SMA20 |-> 950, SMA120 |-> 900, BB_LOW |-> 800, BB_UP |-> 1100, PREV_SMA20 |-> 940,
     PREV_CLOSE |-> 900, Open |-> 990, Low |-> 980, ADX |-> 30]
Fetched ==
    {NoHist, Bars(100, CrossUp), Bars(250, CrossUp),
     Bars(250, [CrossUp EXCEPT !.ADX = 20]),
     Bars(250, [CrossUp EXCEPT !.SMA20 = 1050, !.PREV_SMA20 = 1040])}

\* DataProvider.get_daily_history(symbol, days): None when nothing came or fewer than
\* `days` bars came.
get_daily_history(fetched, days) ==
    IF fetched.kind = "none" \/ fetched.len < days THEN NoHist ELSE fetched

\* rate = (curr - info['avg_price']) / info['avg_price'] * 100, in hundredths of a
\* percent (exact for the lots of HeldLots).
Rate(curr, avg_price) == ((curr - avg_price) * 10000) \div avg_price
\* round(curr * 0.95, 2) and round(curr * 1.05, 2)
MarketSell(curr) == (curr * 95) \div 100
MarketBuy(curr) == (curr * 105) \div 100

\* if rate <= -5.0: ... elif max_rate >= 10.0 and (max_rate - rate) >= 3.0: ...
ExitKind(rate, max_rate) ==
    IF rate <= -500 THEN "stop_loss"
    ELSE IF max_rate >= 1000 /\ (max_rate - rate) >= 300 THEN "trailing"
    ELSE "none"

sell_without_cancel(tr, symbol, phase, qty, price, why, c, ok, t) ==
    [trace |-> Sent(tr, symbol, "SELL", qty, price, why, ok, t), raised |-> FALSE, ok |-> ok]

\* kis.cancel_all_orders(sym, exch); if kis.send_order(sym, exch, qty, price, "SELL", "00"): ...
\* The result is [trace, raised, ok]; nothing is sent when the cancellation raises.
cancel_then_sell(tr, symbol, phase, qty, price, why, c, ok, t) ==
    LET t1 == Cancelled(tr, symbol, phase, c)
    IN IF c = "raises" THEN [trace |-> t1, raised |-> TRUE, ok |-> FALSE]
       ELSE [trace |-> Sent(t1, symbol, "SELL", qty, price, why, ok, t), raised |-> FALSE, ok |-> ok]

MonitorPrices == {9500, 9501, 10700, 10701, 10999, 11000}

NextTarget(k, after) == IF k < Len(TARGETS) THEN [at |-> SP.at, idx |-> k + 1] ELSE after

PhaseAGate ==
    /\ SP.at = "A0"
    /\ IF InPhaseA(loc.current_time) /\ ~data["phase_a_done"]
       THEN Goto([at |-> "A", idx |-> 1]) /\ loc' = [loc EXCEPT !.ran = @ \cup {"A"}]
       ELSE Goto([at |-> "B0"]) /\ UNCHANGED loc
    /\ UNCHANGED <<data, disk, pending_buys, now, lock, prev_holdings_snapshot, ticks, trace, obsVars>>

\* One pass of `for target in TARGETS` in Phase A, given what the collaborators
\* answer for the symbol.
PhaseAStep(c, f, ok) ==
    LET sym == TARGETS[SP.idx].symbol
        next == NextTarget(SP.idx, [at |-> "Aend"])
    IN IF sym \notin DOMAIN loc.holdings
       THEN Goto(next) /\ UNCHANGED <<now, trace>>
       ELSE LET t1 == Cancelled(trace, sym, "A", c)
                sell_qty == loc.holdings[sym].qty \div 2
                inds == calculate_indicators(get_daily_history(f, 30))
            IN IF c = "raises"
               THEN trace' = t1 /\ Raise
               ELSE /\ IF inds.kind /= "none" /\ sell_qty > 0
                       THEN trace' = Sent(t1, sym, "SELL", sell_qty, inds.BB_UP,
                                          "take_profit", ok, now)
                       ELSE trace' = t1
                    /\ Goto(next)
                    /\ UNCHANGED now

PhaseASym ==
    /\ SP.at = "A"
    /\ \E c \in CancelOutcomes, f \in Fetched, ok \in BOOLEAN : PhaseAStep(c, f, ok)
    /\ UNCHANGED <<data, disk, pending_buys, lock, loc, prev_holdings_snapshot, ticks, obsVars>>

PhaseADone ==
    /\ SP.at = "Aend"
    /\ \E o \in EngineSaves : SetMgr(set_phase_a_done(Mgr, TRUE, o))
    /\ Goto([at |-> "B0"])
    /\ UNCHANGED <<now, lock, loc, prev_holdings_snapshot, ticks, trace, obsVars>>

PhaseBGate ==
    /\ SP.at = "B0"
    /\ IF InPhaseB(loc.current_time)
       THEN Goto([at |-> "B", idx |-> 1]) /\ loc' = [loc EXCEPT !.ran = @ \cup {"B"}]
       ELSE Goto([at |-> "C0"]) /\ UNCHANGED loc
    /\ UNCHANGED <<data, disk, pending_buys, now, lock, prev_holdings_snapshot, ticks, trace, obsVars>>

\* One pass of `for target in TARGETS` in Phase B, given the answer of
\* is_sync_ignored and where the loop goes next.
PhaseBStep(ignored, next) ==
    LET sym == TARGETS[SP.idx].symbol
    IN IF ignored \/ sym \notin DOMAIN loc.holdings
       THEN Goto(next) /\ UNCHANGED <<data, disk, pending_buys, now, trace>>
       ELSE \E curr \in MonitorPrices \cup {NoPrice} :
              IF curr = NoPrice
              THEN Goto(next) /\ UNCHANGED <<data, disk, pending_buys, now, trace>>
              ELSE \E o1 \in EngineSaves :
                LET info == loc.holdings[sym]
                    rate == Rate(curr, info.avg_price)
                    m1 == update_max_profit(Mgr, sym, rate, o1)
                    max_rate == get_max_profit(m1, sym)
                    kind == ExitKind(rate, max_rate)
                    t1 == Append(trace, [e |-> "evaluate", symbol |-> sym, rate |-> rate,
                                         max_rate |-> max_rate])
                IN IF kind = "none"
                   THEN SetMgr(m1) /\ trace' = t1 /\ Goto(next) /\ UNCHANGED now
                   ELSE \E c \in CancelOutcomes, ok \in BOOLEAN, o2 \in EngineSaves :
                          LET x == cancel_then_sell(t1, sym, "B", info.qty, MarketSell(curr),
                                                    kind, c, ok, now)
                          IN IF x.raised
                             THEN SetMgr(m1) /\ trace' = x.trace /\ Raise
                             ELSE /\ SetMgr(IF x.ok
                                            THEN set_ignore_sync(m1, sym, IgnoreDuration, now, o2)
                                            ELSE m1)
                                  /\ trace' = x.trace
                                  /\ Goto(next)
                                  /\ UNCHANGED now

PhaseBSym ==
    /\ SP.at = "B"
    /\ PhaseBStep(is_sync_ignored(Mgr, TARGETS[SP.idx].symbol, now),
                  NextTarget(SP.idx, [at |-> "C0"]))
    /\ UNCHANGED <<lock, loc, prev_holdings_snapshot, ticks, obsVars>>

(***************************************************************************)
(* Phase C (15:50-16:00): the entry decision, and Phase D, the three-slice *)
(* buy.  Dollar amounts are kept doubled (in half-cents) so that the 0.5   *)
(* of the target allocation and the thirds of the slices stay exact.       *)
(***************************************************************************)
ClosePrices == {1000}
SlicePrices == {1010}

\* curr_vals += holdings[t['symbol']]['qty'] * p
RECURSIVE curr_vals(_, _, _)
curr_vals(k, holdings, p) ==
    IF k > Len(TARGETS) THEN 0
    ELSE LET symbol == TARGETS[k].symbol
         IN (IF symbol \in DOMAIN holdings /\ p[symbol] /= NoPrice
             THEN holdings[symbol].qty * p[symbol] ELSE 0)
            + curr_vals(k + 1, holdings, p)

\* total_equity = cash + curr_vals; target_alloc = total_equity * 0.5  (doubled)
target_alloc2(cash, holdings, p) == cash + curr_vals(1, holdings, p)

\* needed_amt = target_alloc - virtual_qty * curr  (doubled)
needed_amt2(alloc2, virtual_qty, curr) == alloc2 - 2 * virtual_qty * curr

buy_signal_no_trend(curr, hist, inds) ==
    LET cond_cross == inds.PREV_CLOSE < inds.PREV_SMA20 /\ curr > inds.SMA20
        cond_reclaim == hist.Low < inds.BB_LOW /\ curr > inds.BB_LOW /\ curr > hist.Open
    IN cond_cross \/ cond_reclaim

\* cond_trend and (cond_cross or cond_reclaim), and cond_adx
buy_signal(curr, hist, inds) ==
    LET cond_trend == curr > inds.SMA120
        cond_cross == inds.PREV_CLOSE < inds.PREV_SMA20 /\ curr > inds.SMA20
        cond_reclaim == hist.Low < inds.BB_LOW /\ curr > inds.BB_LOW /\ curr > hist.Open
    IN cond_trend /\ (cond_cross \/ cond_reclaim)
cond_adx(inds) == inds.ADX >= 25

\* chunk = order['amount'] / 3.0; if is_last: chunk *= rem_mult; qty = int(chunk / curr)
slice_qty_one_third(amount2, i, is_last, curr) == amount2 \div (6 * curr)
slice_qty(amount2, i, is_last, curr) ==
    (amount2 * (IF is_last THEN 3 - i ELSE 1)) \div (6 * curr)

PhaseCGate ==
    /\ SP.at = "C0"
    /\ IF InPhaseC(loc.current_time)
       THEN \E p \in [Symbols -> ClosePrices \cup {NoPrice}] :
              /\ loc' = [loc EXCEPT !.ran = @ \cup {"C"},
                                    !.curr_prices = [s \in {x \in Symbols : p[x] /= NoPrice} |-> p[s]],
                                    !.target_alloc2 = target_alloc2(loc.cash, loc.holdings, p),
                                    !.buy_list = << >>]
              /\ Goto([at |-> "C", idx |-> 1])
       ELSE Goto([at |-> "end"]) /\ UNCHANGED loc
    /\ UNCHANGED <<data, disk, pending_buys, now, lock, prev_holdings_snapshot, ticks, trace, obsVars>>

\* KisUS.get_open_orders: the symbol's open orders; [] when the query fails (the
\* except clause, or rt_cd other than '0').  Is the answer non-empty?
QueryOutcomes == {"ok", "fails"}
get_open_orders(has_open, q) == q = "ok" /\ has_open

trend_break_never(real_qty, curr, inds) == FALSE

\* if real_qty > 0 and curr < inds['SMA20']:
trend_break(real_qty, curr, inds) == real_qty > 0 /\ curr < inds.SMA20

\* One pass of `for target in TARGETS` in Phase C, given what the collaborators
\* answer for the symbol.
PhaseCStep(has_open, q, f, ok, o) ==
    LET sym == TARGETS[SP.idx].symbol
        next == NextTarget(SP.idx, [at |-> "D0"])
        skip(tr) == /\ trace' = tr
                    /\ Goto(next)
                    /\ UNCHANGED <<data, disk, pending_buys, loc>>
    IN IF is_sync_ignored(Mgr, sym, now)
       THEN skip(trace)
       ELSE LET open == get_open_orders(has_open, q)
                t1 == Append(trace, [e |-> "get_open_orders", symbol |-> sym,
                                     has_open |-> has_open, found |-> open])
                curr == Get(loc.curr_prices, sym, NoPrice)
                hist == get_daily_history(f, 130)
                inds == calculate_indicators(hist)
                real_qty == IF sym \in DOMAIN loc.holdings THEN loc.holdings[sym].qty ELSE 0
                v == get_virtual_qty(Mgr, sym, real_qty, now)
                amount2 == needed_amt2(loc.target_alloc2, v.val, curr)
            IN IF open \/ hist.kind = "none" \/ curr = NoPrice \/ inds.kind = "none"
               THEN skip(t1)
               ELSE IF trend_break(real_qty, curr, inds)
               THEN /\ trace' = Sent(t1, sym, "SELL", real_qty, MarketSell(curr),
                                     "trend_break", ok, now)
                    /\ SetMgr(IF ok THEN set_ignore_sync(Mgr, sym, IgnoreDuration, now, o) ELSE Mgr)
                    /\ Goto(next)
                    /\ UNCHANGED loc
               ELSE IF buy_signal(curr, hist, inds) /\ cond_adx(inds)
               THEN /\ trace' = t1
                    /\ SetMgr(v.m)
                    /\ loc' = IF amount2 > 2000
                              THEN [loc EXCEPT !.buy_list =
                                      Append(@, [symbol |-> sym, amount2 |-> amount2,
                                                 price |-> curr, qty |-> real_qty])]
                              ELSE loc
                    /\ Goto(next)
               ELSE skip(t1)

PhaseCSym ==
    /\ SP.at = "C"
    /\ \E has_open \in BOOLEAN, q \in QueryOutcomes, f \in Fetched, ok \in BOOLEAN,
          o \in EngineSaves : PhaseCStep(has_open, q, f, ok, o)
    /\ UNCHANGED <<now, lock, prev_holdings_snapshot, ticks, obsVars>>

\* if buy_list: for i in range(3): ...
PhaseDGate ==
    /\ SP.at = "D0"
    /\ IF loc.buy_list /= << >>
       THEN Goto([at |-> "D", i |-> 0]) /\ loc' = [loc EXCEPT !.ran = @ \cup {"D"}]
       ELSE Goto([at |-> "Cend"]) /\ UNCHANGED loc
    /\ UNCHANGED <<data, disk, pending_buys, now, lock, prev_holdings_snapshot, ticks, trace, obsVars>>

\* for order in buy_list: ... send_order(...), record_pending_buy(...)
RECURSIVE slice_orders(_, _, _, _, _, _, _, _)
slice_orders(k, buy_list, i, is_last, p, oks, m, tr) ==
    IF k > Len(buy_list) THEN [m |-> m, trace |-> tr]
    ELSE LET order == buy_list[k]
             curr == IF p[k] /= NoPrice THEN p[k] ELSE order.price
             qty == slice_qty(order.amount2, i, is_last, curr)
             t1 == Append(tr, [e |-> "slice", symbol |-> order.symbol, i |-> i,
                               amount2 |-> order.amount2, price |-> curr, qty |-> qty,
                               at |-> now])
         IN IF qty > 0
            THEN slice_orders(k + 1, buy_list, i, is_last, p, oks,
                              IF oks[k] THEN record_pending_buy(m, order.symbol, qty, order.qty, now)
                              ELSE m,
                              Sent(t1, order.symbol, "BUY", qty, MarketBuy(curr), "twap", oks[k], now))
            ELSE slice_orders(k + 1, buy_list, i, is_last, p, oks, m, t1)

\* get_current_price(order['symbol']) for the n orders of one pass: the quote
\* service answers every request of the pass, or none of them.
SliceQuotes(n) == {[k \in 1..n |-> q] : q \in SlicePrices \cup {NoPrice}}

\* One pass of the TWAP loop: now_str, is_last, the orders, then break or sleep(150).
PhaseDSlice ==
    /\ SP.at = "D"
    /\ LET is_last == SecOfDay(now) >= At(0, 15, 59, 0)
           n == Len(loc.buy_list)
       IN \E p \in SliceQuotes(n), oks \in [1..n -> BOOLEAN] :
            LET r == slice_orders(1, loc.buy_list, SP.i, is_last, p, oks, Mgr, trace)
            IN /\ SetMgr(r.m)
               /\ trace' = r.trace
               /\ IF is_last \/ SP.i >= 2
                  THEN Goto([at |-> "Cend"]) /\ UNCHANGED now
                  ELSE Goto([at |-> "D", i |-> SP.i + 1]) /\ Sleep(150)
    /\ UNCHANGED <<lock, loc, prev_holdings_snapshot, ticks, obsVars>>

closing_pause_skipped == 0 + 60

\* time.sleep(600) closing Phase C, then the time.sleep(60) of the loop
closing_pause == 600 + 60

PhaseCEnd ==
    /\ SP.at = "Cend"
    /\ Goto(Top)
    /\ Sleep(closing_pause)
    /\ loc' = NoLocals
    /\ trace' = << >>
    /\ UNCHANGED <<data, disk, pending_buys, lock, prev_holdings_snapshot, ticks, obsVars>>

(***************************************************************************)
(* The engine alone: the strategy thread from a start of the process.      *)
(***************************************************************************)
StartTimes ==
    {At(0, 9, 28, 30), At(0, 9, 29, 59), At(0, 9, 30, 0), At(0, 9, 39, 0),
     At(0, 15, 49, 0), At(0, 15, 55, 0), At(0, 15, 57, 0), At(0, 15, 59, 0),
     At(0, 16, 0, 0),
     At(5, 12, 0, 0), At(6, 23, 59, 30)}

InitEngine ==
    /\ lock = "free"
    /\ pc = [t \in Threads |-> IF t = "strategy" THEN Top ELSE Idle]
    /\ loc = NoLocals
    /\ prev_holdings_snapshot = EmptyDict
    /\ ticks = 0
    /\ trace = << >>
    /\ disk \in DiskAtStart
    /\ data = _load(disk)
    /\ pending_buys = EmptyDict
    /\ now \in StartTimes
    /\ ret = NoCall
    /\ reads = EmptyDict
    /\ epoch = EmptyDict

Next ==
    \/ Weekend
    \/ PreMarket
    \/ PostClose
    \/ Session
    \/ PhaseAGate
    \/ PhaseASym
    \/ PhaseADone
    \/ PhaseBGate
    \/ PhaseBSym
    \/ PhaseCGate
    \/ PhaseCSym
    \/ PhaseDGate
    \/ PhaseDSlice
    \/ PhaseCEnd
    \/ EndTick
    \/ Catch

Spec == InitEngine /\ [][Next]_vars

(***************************************************************************)
(* Properties of the engine.  `trace` holds the gateway calls of the       *)
(* iteration in progress, in call order.                                   *)
(***************************************************************************)
Events == 1..Len(trace)
IsSell(j) == trace[j].e = "send_order" /\ trace[j].side = "SELL"
IsBuy(j) == trace[j].e = "send_order" /\ trace[j].side = "BUY"
ExitSells(j, why) ==
    {k \in Events : k > j /\ IsSell(k) /\ trace[k].symbol = trace[j].symbol /\ trace[k].why = why}

\* C2: in Regular-Monitoring, for a held symbol evaluated with rate r and high-water
\* mark m (after the update with r), a stop-loss sell is submitted iff r <= -5.0, a
\* trailing-stop sell is submitted iff r > -5.0, m >= 10.0 and m - r >= 3.0, and at most
\* one of the two is submitted.
C2_ExitRule ==
    \A j \in Events :
        trace[j].e = "evaluate" =>
            LET r == trace[j].rate
                m == trace[j].max_rate
            IN /\ (ExitSells(j, "stop_loss") /= {}) = (r <= -500)
               /\ (ExitSells(j, "trailing") /= {}) = (r > -500 /\ m >= 1000 /\ m - r >= 300)
               /\ Cardinality(ExitSells(j, "stop_loss") \cup ExitSells(j, "trailing")) <= 1

\* The rule of C2 holds for every evaluation whose cancellation request did not raise.
ExitRuleUnlessCancelRaises ==
    \A j \in Events :
        (trace[j].e = "evaluate"
           /\ ~\E k \in Events : /\ k > j
                                 /\ trace[k].e = "cancel_all_orders"
                                 /\ trace[k].symbol = trace[j].symbol
                                 /\ trace[k].outcome = "raises") =>
            LET r == trace[j].rate
                m == trace[j].max_rate
            IN /\ (ExitSells(j, "stop_loss") /= {}) = (r <= -500)
               /\ (ExitSells(j, "trailing") /= {}) = (r > -500 /\ m >= 1000 /\ m - r >= 300)
               /\ Cardinality(ExitSells(j, "stop_loss") \cup ExitSells(j, "trailing")) <= 1

CancelBefore(j) ==
    \E i \in Events : i < j /\ trace[i].e = "cancel_all_orders" /\ trace[i].symbol = trace[j].symbol

\* C7 (as stated): every sell of an exit path (stop-loss, trailing stop, trend break,
\* opening-window take-profit) is preceded, in the same iteration, by a cancellation
\* attempt for the same symbol.
C7_CancelBeforeEverySell ==
    \A j \in Events : IsSell(j) => CancelBefore(j)

\* C7 (amended): the sells of the stop-loss, trailing-stop and opening-window
\* take-profit paths are preceded by a cancellation attempt for the symbol; the
\* trend-break sell is preceded by no cancellation attempt, only by an open-orders query
\* for the symbol that reported no open order.
C7_CancelBeforeSellExceptTrendBreak ==
    \A j \in Events :
        IsSell(j) =>
            IF trace[j].why = "trend_break"
            THEN /\ ~CancelBefore(j)
                 /\ \E i \in Events : /\ i < j
                                      /\ trace[i].e = "get_open_orders"
                                      /\ trace[i].symbol = trace[j].symbol
                                      /\ ~trace[i].found
            ELSE CancelBefore(j)

C7_Witness ==
    \E j \in Events : IsSell(j) /\ trace[j].why = "trend_break"

Marker == At(0, 15, 59, 0)
Close == At(0, 16, 0, 0)
Slices(symbol) == {j \in Events : trace[j].e = "slice" /\ trace[j].symbol = symbol}
\* The multiple of A/3 a slice uses: 3 - i at or after the marker, 1 before it.
Thirds(j) == IF SecOfDay(trace[j].at) >= Marker THEN 3 - trace[j].i ELSE 1
RECURSIVE SumOver(_, _, _)
SumOver(js, symbol, shares) ==
    IF js = {} THEN 0
    ELSE LET j == CHOOSE x \in js : TRUE
         IN (IF shares THEN trace[j].qty ELSE Thirds(j)) + SumOver(js \ {j}, symbol, shares)

\* C8: a buy intent of amount A is executed in at most 3 slices; slice i before the
\* 15:59:00 marker uses chunk A/3, a slice at or after the marker uses A*(3-i)/3 and is
\* the last one; each slice orders floor(chunk/price) shares; over a finished run the
\* chunks sum to A; with A = 3000 and price 10 a non-final slice orders 100 shares, a
\* marker slice 100*(3-i), and the run 300.
C8_Slicing ==
    \A symbol \in Symbols :
        /\ \A j \in Slices(symbol) :
              LET ev == trace[j]
                  chunk6 == ev.amount2 * Thirds(j)
              IN /\ ev.i \in 0..2
                 /\ \A k \in Slices(symbol) : k /= j => trace[k].i /= ev.i
                 /\ ev.qty * 6 * ev.price <= chunk6
                 /\ chunk6 < (ev.qty + 1) * 6 * ev.price
                 /\ (SecOfDay(ev.at) >= Marker) => \A k \in Slices(symbol) : k <= j
                 /\ (ev.amount2 = 600000 /\ ev.price = 1000) =>
                        ev.qty = IF SecOfDay(ev.at) >= Marker THEN 100 * (3 - ev.i) ELSE 100
        /\ (SP.at = "Cend" /\ Slices(symbol) /= {}) =>
              /\ SumOver(Slices(symbol), symbol, FALSE) = 3
              /\ (\A j \in Slices(symbol) : trace[j].amount2 = 600000 /\ trace[j].price = 1000)
                     => SumOver(Slices(symbol), symbol, TRUE) = 300

C8_Witness ==
    /\ SP.at = "Cend"
    /\ \E j, k \in Slices("TQQQ") :
          /\ trace[j].i = 0 /\ trace[j].qty = 100 /\ SecOfDay(trace[j].at) < Marker
          /\ trace[k].i = 1 /\ trace[k].qty = 200 /\ SecOfDay(trace[k].at) >= Marker
          /\ trace[j].amount2 = 600000 /\ trace[j].price = 1000 /\ trace[k].price = 1000

\* C9: whenever the Closing-Decision rule starts inside [15:50, 16:00), no TWAP buy
\* order is submitted at or after 16:00.
C9_NoBuyAtOrAfterClose ==
    \A j \in Events : IsBuy(j) => SecOfDay(trace[j].at) < Close

\* The sessions a market-time instant belongs to.
Sessions(t) ==
    LET s == SecOfDay(t)
    IN IF weekday(t) >= 5 THEN {"Weekend"}
       ELSE (IF s < At(0, 9, 30, 0) THEN {"Pre-Market"} ELSE {})
            \cup (IF At(0, 9, 30, 0) <= s /\ s < At(0, 9, 40, 0) THEN {"Opening-Window"} ELSE {})
            \cup (IF At(0, 9, 30, 0) <= s /\ s < At(0, 15, 50, 0) THEN {"Regular-Monitoring"} ELSE {})
            \cup (IF At(0, 15, 50, 0) <= s /\ s < Close THEN {"Closing-Decision"} ELSE {})
            \cup (IF s >= Close THEN {"Post-Close"} ELSE {})

\* C10: the gate an iteration takes is the session of its timestamp (weekend on
\* Saturday and Sunday whatever the clock; on a weekday pre-market before 09:30, the
\* trading session in [09:30, 16:00), post-close from 16:00); Phase A runs only in the
\* Opening-Window, Phase B exactly in Regular-Monitoring, Phase C exactly in
\* Closing-Decision, none of them in Weekend, Pre-Market or Post-Close; on a weekday
\* exactly one of Pre-Market, Regular-Monitoring, Closing-Decision, Post-Close holds
\* and Opening-Window lies inside Regular-Monitoring.
C10_SessionClassification ==
    loc.gate /= "none" =>
        LET ss == Sessions(loc.stamp)
        IN /\ (loc.gate = "weekend") = ("Weekend" \in ss)
           /\ (loc.gate = "pre") = ("Pre-Market" \in ss)
           /\ (loc.gate = "post") = ("Post-Close" \in ss)
           /\ (loc.gate = "session") = (ss \cap {"Regular-Monitoring", "Closing-Decision"} /= {})
           /\ get_market_status(loc.stamp).is_open
                 = (ss \cap {"Regular-Monitoring", "Closing-Decision"} /= {})
           /\ "A" \in loc.ran => "Opening-Window" \in ss
           /\ SP.at \in {"A", "Aend"} => "A" \in loc.ran
           /\ SP.at \in {"B", "C0", "C", "D0", "D", "Cend", "end"}
                 => ("B" \in loc.ran) = ("Regular-Monitoring" \in ss)
           /\ SP.at \in {"C", "D0", "D", "Cend", "end"}
                 => ("C" \in loc.ran) = ("Closing-Decision" \in ss)
           /\ loc.ran /= {} => ss \cap {"Weekend", "Pre-Market", "Post-Close"} = {}
           /\ "Weekend" \notin ss
                 => Cardinality(ss \cap {"Pre-Market", "Regular-Monitoring",
                                         "Closing-Decision", "Post-Close"}) = 1
           /\ "Weekend" \in ss => ss = {"Weekend"}
           /\ "Opening-Window" \in ss => "Regular-Monitoring" \in ss

C10_Witness ==
    /\ SP.at = "end"
    /\ loc.stamp = At(0, 9, 30, 0)
    /\ loc.ran = {"A", "B"}

(***************************************************************************)
(* The daily reset.                                                        *)
(***************************************************************************)
\* The per-day state reset_daily leaves in memory.
Cleared ==
    /\ data["phase_a_done"] = FALSE
    /\ data["max_profit"] = EmptyDict
    /\ data["ignore_list"] = EmptyDict
    /\ pending_buys = EmptyDict

\* C11: reset_daily is idempotent: a reset_daily call that directly follows a
\* reset_daily call leaves the in-memory status, the pending-buy ledger and the status
\* file as the first call left them, and every call leaves the per-day state cleared.
C11_ResetDailyIdempotent ==
    [][ret'.op = "reset_daily" =>
          /\ Cleared'
          /\ ret.op = "reset_daily" =>
                (data' = data /\ pending_buys' = pending_buys /\ disk' = disk)]_vars

\* The in-memory half of C11, and the file when its write succeeded both times.
ResetDailyIdempotentInMemory ==
    [][ret'.op = "reset_daily" =>
          /\ Cleared'
          /\ ret.op = "reset_daily" =>
                /\ data' = data /\ pending_buys' = pending_buys
                /\ (disk = Stored(data) /\ disk' = Stored(data')) => disk' = disk]_vars

(***************************************************************************)
(* SpecDays: the loop running without interruption from Monday through the *)
(* post-close window of the next Monday, with the account empty or the     *)
(* balance query failing at every tick (get_balance gives ({}, 0.0)), so   *)
(* that a whole week of ticks can be followed.                             *)
(***************************************************************************)
QuietBalances == {[holdings |-> EmptyDict, cash |-> 0]}
DayStarts == {At(0, 9, 0, 0), At(0, 16, 0, 0)}
DaysHorizon == At(7, 16, 5, 0)

InitDays ==
    /\ lock = "free"
    /\ pc = [t \in Threads |-> IF t = "strategy" THEN Top ELSE Idle]
    /\ loc = NoLocals
    /\ prev_holdings_snapshot = EmptyDict
    /\ ticks = 0
    /\ trace = << >>
    /\ disk \in DiskAtStart
    /\ data = _load(disk)
    /\ pending_buys = EmptyDict
    /\ now \in DayStarts
    /\ ret = NoCall
    /\ reads = EmptyDict
    /\ epoch = EmptyDict

\* The head of an iteration, as long as the week lasts.
Ticking ==
    /\ SP.at = "top"
    /\ now < DaysHorizon
    /\ trace' = << >>
    /\ UNCHANGED ticks

DayWeekend == Ticking /\ WeekendGate
DayPreMarket == Ticking /\ PreMarketGate
DayPostClose == Ticking /\ PostCloseGate
DaySession == Ticking /\ SessionGate(QuietBalances)

NextDays ==
    \/ DayWeekend
    \/ DayPreMarket
    \/ DayPostClose
    \/ DaySession
    \/ PhaseAGate
    \/ PhaseASym
    \/ PhaseADone
    \/ PhaseBGate
    \/ PhaseBSym
    \/ PhaseCGate
    \/ PhaseCSym
    \/ PhaseDGate
    \/ PhaseCEnd
    \/ EndTick

SpecDays == InitDays /\ [][NextDays]_vars

Day(t) == t \div 86400

\* C12: the daily reset is one-shot.  The first weekday tick at or after 16:00 of a
\* day invokes reset_daily; the later post-close ticks of that day do not; no two
\* invocations fall on the same day and none outside a weekday's post-close window;
\* the guard re-arms, so the first post-close tick of the next trading day invokes it
\* again.
C12_OneShotDailyReset ==
    [][/\ (loc'.gate = "post" /\ now' /= now) =>
             IF loc.gate = "post"
             THEN ret' = ret
             ELSE ret' = [op |-> "reset_daily", at |-> now]
       /\ ret' /= ret =>
             /\ loc'.gate = "post" /\ loc'.stamp = ret'.at
             /\ weekday(ret'.at) < 5 /\ SecOfDay(ret'.at) >= At(0, 16, 0, 0)
             /\ ret.op = "reset_daily" => Day(ret.at) < Day(ret'.at)]_vars

\* A later post-close tick of Tuesday, after Tuesday's own reset.
C12_Witness ==
    /\ ret.op = "reset_daily"
    /\ Day(ret.at) = 1
    /\ loc.gate = "post"
    /\ loc.stamp > ret.at

\* C13: once an iteration has entered the Opening-Window rule (Phase A), phase_a_done
\* is set by the time the iteration has left the rule, whatever happened for each
\* symbol - so that the rule runs at most once per trading day.
C13_PhaseADoneAfterEntering ==
    ("A" \in loc.ran /\ SP.at \notin {"A", "Aend"}) => data["phase_a_done"]

\* C14: the Closing-Decision rule runs at most once per trading day: when an iteration
\* that ran it (Phase C) returns to the head of the loop, the clock is at or after
\* 16:00 of the same day, so the next tick is a post-close tick.
C14_ClosingDecisionOnce ==
    [][("C" \in loc.ran /\ SP.at /= "top" /\ SP'.at = "top") =>
          /\ Day(now') = Day(loc.stamp)
          /\ SecOfDay(now') >= Close]_vars

\* The post-close tick that follows a Closing-Decision pass begun at 15:55:00.
C14_Witness ==
    /\ ticks = 2
    /\ loc.gate = "post"
    /\ loc.stamp = At(0, 16, 6, 0)

(***************************************************************************)
(* The ignore-sync window.                                                 *)
(***************************************************************************)
Exits == {"stop_loss", "trailing", "trend_break"}
Expiry(d, symbol) == Get(Get(d, "ignore_list", EmptyDict), symbol, 0)
HighWater(d, symbol) == Get(Get(d, "max_profit", EmptyDict), symbol, "none")
\* The events a step adds to the trace.
Added == {j \in 1..Len(trace') : j > Len(trace)}
InMonitoringOrClosing == SP.at \in {"B0", "B", "C0", "C", "D0", "D"}
\* Regular-Monitoring and Closing-Decision leave a symbol alone in this step.
LeftAlone(symbol) ==
    /\ \A j \in Added : trace'[j].symbol /= symbol
    /\ HighWater(data', symbol) = HighWater(data, symbol)
    /\ \A k \in 1..Len(loc'.buy_list) :
          loc'.buy_list[k].symbol = symbol => k <= Len(loc.buy_list)

C16_NoOrderOverOpenOrder ==
    \A j \in Events :
        (trace[j].e = "get_open_orders" /\ trace[j].has_open) =>
            /\ ~\E k \in Events : k > j /\ IsSell(k) /\ trace[k].symbol = trace[j].symbol
            /\ ~\E k \in 1..Len(loc.buy_list) : loc.buy_list[k].symbol = trace[j].symbol

(***************************************************************************)
(* C17.  One symbol's failure does not abort the tick.                     *)
(***************************************************************************)
\* Where the loop over TARGETS of a phase continues after its last target.
AfterLoop(at) == CASE at = "A" -> [at |-> "Aend"]
                   [] at = "B" -> [at |-> "C0"]
                   [] at = "C" -> [at |-> "D0"]

\* C17: whatever the gateway and market-data calls made for one target symbol do
\* (an erroring cancel request included), the step of the per-symbol loop for
\* TARGETS[idx] is followed by the evaluation of the next target, or, after the
\* last target, by the next step of the tick.
C17_FailureIsolation ==
    [][SP.at \in {"A", "B", "C"} => SP' = NextTarget(SP.idx, AfterLoop(SP.at))]_vars

\* The same, for every failure but a cancel request that raises: a quote, history,
\* open-orders or order call that fails leaves the loop on its course.
FailureIsolationUnlessCancelRaises ==
    [][(SP.at \in {"A", "B", "C"} /\ SP'.at /= "except")
         => SP' = NextTarget(SP.idx, AfterLoop(SP.at))]_vars

(***************************************************************************)
(* C18.  The loop goes on after every iteration, aborted or not.           *)
(***************************************************************************)
\* Starts that cover each gate, an aborted Phase A or B and a Closing-Decision.
InitLoop ==
    InitEngine /\ now \in {At(0, 9, 28, 30), At(0, 9, 39, 0), At(0, 15, 59, 0), At(5, 12, 0, 0)}

\* The thread keeps running: a step of the loop that can be taken is taken.  Every
\* call of the body returns or raises, and every sleep ends.
SpecLoop == InitLoop /\ [][Next]_vars /\ WF_vars(Next)

\* C18: an iteration that has started comes back to the head of the loop, through
\* the handler when a call raised, and (within the modelled horizon of MaxTicks
\* iterations) the k-th iteration is followed by iteration k+1.
C18_EveryTickFollowed ==
    /\ (SP.at /= "top") ~> (SP.at = "top")
    /\ \A k \in 1..(MaxTicks - 1) : (ticks = k) ~> (ticks = k + 1)

\* An iteration was aborted by an exception, and the loop started the next one.
C18_Witness ==
    ticks = 2 /\ SP.at /= "top" /\ now = At(0, 9, 40, 0) /\ ~data["phase_a_done"]
    /\ "TQQQ" \in DOMAIN loc.holdings

(***************************************************************************)
(* C19.  What the tracker is after loading a store of any shape.           *)
(***************************************************************************)
\* The status file at start: absent, unreadable or not JSON, the defaults, or a
\* JSON object that lacks some of the fields.
StoresAtStart ==
    DiskAtStart \cup {Stored(EmptyDict),
                      Stored(Del(DefaultData, "max_profit")),
                      Stored(Del(DefaultData, "ignore_list")),
                      Stored(Del(DefaultData, "phase_a_done"))}

InitLoad ==
    /\ lock = "free"
    /\ pc = [t \in Threads |-> Idle]
    /\ loc = NoLocals
    /\ prev_holdings_snapshot = EmptyDict
    /\ ticks = 0
    /\ trace = << >>
    /\ disk \in StoresAtStart
    /\ data = _load(disk)
    /\ pending_buys = EmptyDict
    /\ now = 0
    /\ ret = NoCall
    /\ reads = EmptyDict
    /\ epoch = EmptyDict

\* self.data[key] of a key the dictionary does not have: KeyError out of the call.
KeyError(op, key) ==
    /\ ret' = [op |-> op, raised |-> "KeyError", key |-> key]
    /\ UNCHANGED <<data, disk, pending_buys, now, reads, epoch, thrVars, engVars>>

\* get_max_profit on whatever was loaded: self.data["max_profit"] comes first.
LoadedGetMaxProfit(s) ==
    IF "max_profit" \in DOMAIN data THEN GetMaxProfit(s)
    ELSE KeyError("get_max_profit", "max_profit")

\* status_mgr.data['phase_a_done'] in the gate of Phase A.
ReadPhaseADone ==
    IF "phase_a_done" \in DOMAIN data
    THEN /\ ret' = [op |-> "phase_a_done", val |-> data["phase_a_done"]]
         /\ UNCHANGED <<data, disk, pending_buys, now, reads, epoch, thrVars, engVars>>
    ELSE KeyError("phase_a_done", "phase_a_done")

NextLoad ==
    \/ \E s \in Symbols : LoadedGetMaxProfit(s)
    \/ ReadPhaseADone
    \/ \E s \in Symbols, r \in Rates, o \in EngineSaves : UpdateMaxProfit(s, r, o)
    \/ \E s \in Symbols, o \in EngineSaves : ResetMaxProfit(s, o)
    \/ \E o \in EngineSaves : SetPhaseADone(o)
    \/ \E s \in Symbols, o \in EngineSaves : SetIgnoreSync(s, o)
    \/ \E s \in Symbols : IsSyncIgnored(s)
    \/ \E o \in EngineSaves : ResetDaily(o)

SpecLoad == InitLoad /\ [][NextLoad]_vars

RequiredFields == {"phase_a_done", "max_profit", "ignore_list"}
Unusable(dk) == dk.kind /= "ok" \/ ~(RequiredFields \subseteq DOMAIN dk.content)

\* C19: when the store is absent, unreadable, not JSON, or a JSON object lacking
\* required fields, the tracker starts from the defaults, and no operation made
\* afterwards raises.
C19_LoadToleratesBadStore ==
    /\ (ret = NoCall /\ Unusable(disk)) => data = DefaultData
    /\ "raised" \notin DOMAIN ret

\* The same for the stores the loader does replace by the defaults: an absent file
\* and a file that is unreadable or not JSON.
LoadToleratesMissingOrCorrupt ==
    /\ (ret = NoCall /\ disk.kind /= "ok") => data = DefaultData
    /\ (RequiredFields \subseteq DOMAIN data) => "raised" \notin DOMAIN ret

(***************************************************************************)
(* C20.  The process is stopped between two iterations and started again.  *)
(***************************************************************************)
InitMonitoring == InitEngine /\ now = At(0, 9, 39, 0)

\* A new process: status_mgr = StatusManager() reads the file again, pending_buys
\* and prev_holdings_snapshot start empty.  `ret` keeps what the stopped process
\* held, for comparison.
Restart ==
    /\ SP.at = "top"
    /\ ticks >= 1
    /\ ret.op /= "restart"
    /\ data' = _load(disk)
    /\ pending_buys' = EmptyDict
    /\ prev_holdings_snapshot' = EmptyDict
    /\ loc' = NoLocals
    /\ ret' = [op |-> "restart", data |-> data, snapshot |-> prev_holdings_snapshot,
               tick |-> ticks, at |-> now]
    /\ UNCHANGED <<disk, now, lock, pc, ticks, trace, reads, epoch>>

NextRestart ==
    \/ Session
    \/ PhaseAGate
    \/ PhaseASym
    \/ PhaseADone
    \/ PhaseBGate
    \/ PhaseBSym
    \/ PhaseCGate
    \/ EndTick
    \/ Catch
    \/ Restart

SpecRestart == InitMonitoring /\ [][NextRestart]_vars

HeldQty(holdings, symbol) == IF symbol \in DOMAIN holdings THEN holdings[symbol].qty ELSE 0
Larger(a, b) == IF a > b THEN a ELSE b

\* The first iteration after a restart, with the quantities the stopped process saw.
FirstTickAfterRestart ==
    /\ ret.op = "restart"
    /\ ticks = ret.tick + 1
    /\ loc.gate = "session"
    /\ Day(now) = Day(ret.at)
    /\ \A s \in Symbols : HeldQty(loc.holdings, s) = Get(ret.snapshot, s, 0)

\* C20: in the first iteration after a restart within the same day with unchanged
\* quantities, the phase-A-done flag and the ignore windows the iteration starts with
\* are those the stopped process held, and the high-water mark each Regular-Monitoring
\* evaluation uses is the mark the stopped process held, raised to the present rate
\* when that is higher.
C20_StateSurvivesRestart ==
    FirstTickAfterRestart =>
      /\ SP.at = "A0" =>
           /\ data["phase_a_done"] = ret.data["phase_a_done"]
           /\ data["ignore_list"] = ret.data["ignore_list"]
      /\ \A j \in Events :
           (trace[j].e = "evaluate" /\ trace[j].symbol \in DOMAIN ret.data["max_profit"])
             => trace[j].max_rate = Larger(ret.data["max_profit"][trace[j].symbol], trace[j].rate)

\* The part of it that holds: the flag and the ignore windows are read back.
FlagAndWindowsSurviveRestart ==
    (FirstTickAfterRestart /\ SP.at = "A0") =>
       /\ data["phase_a_done"] = ret.data["phase_a_done"]
       /\ data["ignore_list"] = ret.data["ignore_list"]

(***************************************************************************)
(* C21.  What the loop does with an order the broker rejected.             *)
(***************************************************************************)

\* The orders of the iteration that send_order reported as failed.
Rejected(tr) ==
    {[symbol |-> tr[j].symbol, side |-> tr[j].side, qty |-> tr[j].qty] :
       j \in {i \in 1..Len(tr) : tr[i].e = "send_order" /\ ~tr[i].ok}}

\* time.sleep(60) at the end of the loop body; `ret` keeps the orders that were
\* rejected in the iteration that ends, for comparison with the next one.
EndTickNoting ==
    /\ SP.at = "end"
    /\ Goto(Top)
    /\ Sleep(60)
    /\ loc' = NoLocals
    /\ trace' = << >>
    /\ ret' = [op |-> "tick", rejected |-> Rejected(trace), tick |-> ticks]
    /\ UNCHANGED <<data, disk, pending_buys, lock, prev_holdings_snapshot, ticks, reads, epoch>>

NextRetry ==
    \/ Session
    \/ PhaseAGate
    \/ PhaseASym
    \/ PhaseADone
    \/ PhaseBGate
    \/ PhaseBSym
    \/ PhaseCGate
    \/ EndTickNoting
    \/ Catch

SpecRetry == InitMonitoring /\ [][NextRetry]_vars

\* C21: an order that the broker rejected in one iteration is not submitted again
\* (same symbol, side and quantity) in the following iteration.
C21_RejectedOrderNotRetried ==
    (ret.op = "tick" /\ ticks = ret.tick + 1) =>
       \A j \in Events :
          trace[j].e = "send_order" =>
             [symbol |-> trace[j].symbol, side |-> trace[j].side, qty |-> trace[j].qty]
                \notin ret.rejected

(***************************************************************************)
(* C22.  The entry decision of Phase C, on inputs at its boundaries.       *)
(***************************************************************************)

\* A year of bars where the price of ClosePrices dipped under the lower band and
\* came back, below the 20-day mean.
Reclaim ==
    [CrossUp EXCEPT !.SMA20 = 1050, !.PREV_SMA20 = 1040, !.BB_LOW = 990, !.Low = 980]
EntryFetched ==
    {NoHist, Bars(100, CrossUp), Bars(125, CrossUp), Bars(250, CrossUp),
     Bars(250, [CrossUp EXCEPT !.ADX = 25]), Bars(250, [CrossUp EXCEPT !.ADX = 24]),
     Bars(250, [CrossUp EXCEPT !.SMA120 = 1000]),
     Bars(250, Reclaim), Bars(250, [Reclaim EXCEPT !.Open = 1000])}
\* Nothing held and a target allocation of 3000.00, of 10.00 and of 10.01; holdings
\* with and without cash.
EntryBalances ==
    {[holdings |-> EmptyDict, cash |-> 600000],
     [holdings |-> EmptyDict, cash |-> 2000],
     [holdings |-> EmptyDict, cash |-> 2002],
     [holdings |-> Put(EmptyDict, "TQQQ", Lot(3)), cash |-> 600000],
     [holdings |-> Put(EmptyDict, "SOXL", Lot(1)), cash |-> 0]}

EntrySession == Begin /\ SessionGate(EntryBalances)

\* PhaseCSym on the histories of EntryFetched; `ret` keeps what the collaborators
\* answered for the symbol.
EntrySym ==
    /\ SP.at = "C"
    /\ \E has_open \in BOOLEAN, q \in QueryOutcomes, f \in EntryFetched, ok \in BOOLEAN,
          o \in EngineSaves :
         LET sym == TARGETS[SP.idx].symbol
             real_qty == IF sym \in DOMAIN loc.holdings THEN loc.holdings[sym].qty ELSE 0
         IN /\ PhaseCStep(has_open, q, f, ok, o)
            /\ ret' = [op |-> "entry", symbol |-> sym,
                       ignored |-> is_sync_ignored(Mgr, sym, now),
                       has_open |-> has_open, found |-> get_open_orders(has_open, q),
                       hist |-> f, curr |-> Get(loc.curr_prices, sym, NoPrice),
                       real_qty |-> real_qty,
                       virtual_qty |-> get_virtual_qty(Mgr, sym, real_qty, now).val]
    /\ UNCHANGED <<now, lock, prev_holdings_snapshot, ticks, reads, epoch>>

NextEntry ==
    \/ EntrySession
    \/ PhaseAGate
    \/ PhaseBGate
    \/ PhaseCGate
    \/ EntrySym
    \/ PhaseDGate
    \/ PhaseDSlice
    \/ PhaseCEnd

InitEntry == InitEngine /\ now = At(0, 15, 59, 0)
SpecEntry == InitEntry /\ [][NextEntry]_vars

\* The entry for the symbol in buy_list, if any.
Intents(symbol) == {k \in 1..Len(loc.buy_list) : loc.buy_list[k].symbol = symbol}
\* cash + mark-to-market value of the priced holdings, and needed, both doubled.
RECURSIVE MarkToMarket(_, _, _)
MarkToMarket(S, holdings, prices) ==
    IF S = {} THEN 0
    ELSE LET s == CHOOSE x \in S : TRUE
         IN (IF s \in DOMAIN holdings /\ s \in DOMAIN prices THEN holdings[s].qty * prices[s] ELSE 0)
            + MarkToMarket(S \ {s}, holdings, prices)
Allocation2 == loc.cash + MarkToMarket(Symbols, loc.holdings, loc.curr_prices)
Needed2(r) == Allocation2 - 2 * r.virtual_qty * r.curr

\* The four conditions of the claim on what was answered for the symbol.
EntryConditions(r) ==
    /\ r.hist.kind = "bars" /\ r.hist.len >= 120 /\ r.curr /= NoPrice
    /\ r.curr > r.hist.SMA120
    /\ \/ r.hist.PREV_CLOSE < r.hist.PREV_SMA20 /\ r.curr > r.hist.SMA20
       \/ r.hist.Low < r.hist.BB_LOW /\ r.curr > r.hist.BB_LOW /\ r.curr > r.hist.Open
    /\ r.hist.ADX >= 25
    /\ Needed2(r) > 2 * 1000
\* The symbol reached the entry rule: not ignored, no open order found, price and
\* 130 bars at hand, and not sold as a trend break.
EntryEvaluated(r) ==
    /\ ~r.ignored /\ ~r.found
    /\ r.curr /= NoPrice /\ r.hist.kind = "bars" /\ r.hist.len >= 130
    /\ ~(r.real_qty > 0 /\ r.curr < r.hist.SMA20)
JustEvaluated == ret.op = "entry" /\ SP.at \in {"C", "D0"}
AmountAsNeeded(r) ==
    \A k \in Intents(r.symbol) :
       /\ loc.buy_list[k].amount2 = Needed2(r)
       /\ loc.buy_list[k].amount2 > 2 * 1000
       /\ loc.buy_list[k].amount2 <= Allocation2

\* C22: a buy intent is queued for a symbol iff price > SMA120, a cross-up or a band
\* reclaim, oscillator >= 25 and needed > 10 all hold; the queued amount is needed,
\* in (10, target allocation].
C22_BuyIntentIffConditions ==
    JustEvaluated =>
       /\ (Intents(ret.symbol) /= {}) <=> EntryConditions(ret)
       /\ AmountAsNeeded(ret)

\* C22 as the code has it: the same, for a symbol that reached the entry rule; no
\* intent is queued for a symbol that did not.
C22_EvaluatedBuyIntentIffConditions ==
    JustEvaluated =>
       /\ (Intents(ret.symbol) /= {}) <=> (EntryEvaluated(ret) /\ EntryConditions(ret))
       /\ AmountAsNeeded(ret)

\* A band reclaim below the 20-day mean queued a buy for a symbol that is not held.
C22_Witness ==
    /\ JustEvaluated
    /\ ret.hist = Bars(250, Reclaim)
    /\ Intents(ret.symbol) /= {}

(***************************************************************************)
(* C23.  A held symbol under its 20-day mean is sold, not bought.          *)
(***************************************************************************)
\* What was answered for the symbol says it is held and priced below SMA20.
BelowSMA20(r) ==
    /\ r.real_qty > 0 /\ r.curr /= NoPrice
    /\ r.hist.kind = "bars" /\ r.hist.len >= 120
    /\ r.curr < r.hist.SMA20
TrendBreakSells(symbol) ==
    {j \in Events : IsSell(j) /\ trace[j].symbol = symbol /\ trace[j].why = "trend_break"}
SoldInFull(r) ==
    /\ TrendBreakSells(r.symbol) /= {}
    /\ \A j \in TrendBreakSells(r.symbol) : trace[j].qty = r.real_qty
    /\ Intents(r.symbol) = {}
\* No symbol has both a sell and a buy (or a buy intent) in the pass.
NoSellAndBuy ==
    \A i \in Events :
       IsSell(i) =>
          /\ \A j \in Events : IsBuy(j) => trace[j].symbol /= trace[i].symbol
          /\ Intents(trace[i].symbol) = {}

\* C23: in a Closing-Decision pass a held symbol whose price is below SMA20 gets a
\* sell for its entire real quantity and no buy intent, whether or not the sell is
\* accepted; no symbol gets both a sell and a buy in the pass.
C23_TrendBreakBeforeEntry ==
    /\ (JustEvaluated /\ BelowSMA20(ret)) => SoldInFull(ret)
    /\ NoSellAndBuy

\* C23 as the code has it: the same for a symbol that reaches the rule (not ignored,
\* no open order found, 130 bars at hand); a symbol that does not reach it gets no
\* order at all.
C23_EvaluatedTrendBreakBeforeEntry ==
    /\ (JustEvaluated /\ BelowSMA20(ret))
          => IF ~ret.ignored /\ ~ret.found /\ ret.hist.len >= 130
             THEN SoldInFull(ret)
             ELSE TrendBreakSells(ret.symbol) = {} /\ Intents(ret.symbol) = {}
    /\ NoSellAndBuy

\* A rejected trend-break sell of one symbol and a TWAP buy of the other, in one pass.
C23_Witness ==
    \E i, j \in Events :
       /\ IsSell(i) /\ trace[i].why = "trend_break" /\ ~trace[i].ok /\ trace[i].qty = 3
       /\ IsBuy(j)

(***************************************************************************)
(* C24.  A symbol without history or price, in Phase A and in Phase C.     *)
(***************************************************************************)

\* PhaseASym on the histories of EntryFetched; `ret` keeps what the collaborators
\* answered for the symbol.
OpeningSym ==
    /\ SP.at = "A"
    /\ \E c \in CancelOutcomes, f \in EntryFetched, ok \in BOOLEAN :
         /\ PhaseAStep(c, f, ok)
         /\ ret' = [op |-> "opening", symbol |-> TARGETS[SP.idx].symbol,
                    held |-> TARGETS[SP.idx].symbol \in DOMAIN loc.holdings,
                    cancel |-> c, hist |-> f, curr |-> NoPrice]
    /\ UNCHANGED <<data, disk, pending_buys, lock, loc, prev_holdings_snapshot, ticks,
                   reads, epoch>>

NextSkip ==
    \/ EntrySession
    \/ PhaseAGate
    \/ OpeningSym
    \/ PhaseADone
    \/ PhaseBGate
    \/ PhaseBSym
    \/ PhaseCGate
    \/ EntrySym
    \/ PhaseDGate
    \/ PhaseDSlice
    \/ PhaseCEnd
    \/ EndTick
    \/ Catch

InitSkip == InitEngine /\ now \in {At(0, 9, 39, 0), At(0, 15, 59, 0)}
SpecSkip == InitSkip /\ [][NextSkip]_vars

\* The history for the symbol is unavailable or shorter than 120 bars, or (in
\* Phase C, which needs it) the price is unavailable.
NoData(r) ==
    \/ r.hist.kind = "none"
    \/ r.hist.len < 120
    \/ r.op = "entry" /\ r.curr = NoPrice
JustOpened ==
    /\ ret.op = "opening" /\ ret.held
    /\ SP.at \in {"A", "Aend"} \/ (SP.at = "except" /\ "B" \notin loc.ran)
Orders(symbol) == {j \in Events : trace[j].e = "send_order" /\ trace[j].symbol = symbol}

\* C24: when the history of a symbol is unavailable or has fewer than 120 bars, or
\* its price is unavailable, Phase A and Phase C submit no order and queue no buy
\* intent for it in that iteration, and the loop goes on to the other symbols.
C24_NoDataIsASkip ==
    ((JustOpened \/ JustEvaluated) /\ NoData(ret)) =>
       /\ Orders(ret.symbol) = {}
       /\ Intents(ret.symbol) = {}
       /\ SP.at /= "except"

\* The same, outside a cancel request that raises.
NoDataIsASkipUnlessCancelRaises ==
    ((JustOpened \/ JustEvaluated) /\ NoData(ret)) =>
       /\ Orders(ret.symbol) = {}
       /\ Intents(ret.symbol) = {}
       /\ SP.at = "except" => (ret.op = "opening" /\ ret.cancel = "raises")

(***************************************************************************)
(* C25.  The balance query fails in one iteration and answers in the next. *)
(***************************************************************************)
\* KisUS.get_balance: what the account holds when the query answers; no holdings and
\* no cash when it fails (rt_cd other than '0', or an exception).
get_balance(account, q) ==
    IF q = "ok" THEN account ELSE [holdings |-> EmptyDict, cash |-> 0]

\* The head of an iteration before 09:42:00; `ret` keeps what the account (1 or 3 shares of TQQQ) held
\* at this iteration and at the one before, whether the query answered, and the
\* high-water marks before the detection of external trades.
FetchSession ==
    /\ SP.at = "top"
    /\ now < At(0, 9, 42, 0)
    /\ trace' = << >>
    /\ \E account \in {[holdings |-> Put(EmptyDict, "TQQQ", Lot(n)), cash |-> 0] : n \in {1, 3}},
          q \in QueryOutcomes :
         /\ SessionBody({get_balance(account, q)})
         /\ ret' = [op |-> "get_balance", answered |-> q = "ok",
                    real |-> [s \in Symbols |-> HeldQty(account.holdings, s)],
                    before |-> IF ret.op = "get_balance" THEN ret.real
                               ELSE [s \in Symbols |-> -1],
                    marks |-> data["max_profit"]]
    /\ UNCHANGED <<ticks, reads, epoch>>

NextFetch ==
    \/ FetchSession
    \/ PhaseAGate
    \/ PhaseASym
    \/ PhaseADone
    \/ PhaseBGate
    \/ PhaseBSym
    \/ PhaseCGate
    \/ EndTick
    \/ Catch

SpecFetch == InitMonitoring /\ [][NextFetch]_vars

\* C25: the detection of external trades at the head of an iteration erases the
\* high-water mark of a symbol only when the quantity the account really holds is
\* larger than at the iteration before; in particular not when the query failed at
\* the iteration before and the quantity is the same.
C25_ResetOnlyOnRealIncrease ==
    (ret.op = "get_balance" /\ SP.at = "A0") =>
       \A s \in Symbols :
          (ret.before[s] >= 0 /\ ret.real[s] <= ret.before[s] /\ s \in DOMAIN ret.marks)
             => (s \in DOMAIN data["max_profit"] /\ data["max_profit"][s] = ret.marks[s])

\* The detection compares with the quantities of the previous answer, failed or not:
\* the mark goes exactly when the reported quantity is above the snapshot.
ResetOnReportedIncrease ==
    [][(SP.at = "top" /\ SP'.at = "A0") =>
         \A s \in Symbols :
            (s \in DOMAIN data["max_profit"]) =>
               ((s \notin DOMAIN data'["max_profit"])
                  <=> HeldQty(loc'.holdings, s) > Get(prev_holdings_snapshot, s, 0))]_vars

(***************************************************************************)
(* C26.  The virtual quantity during and after a TWAP run.                 *)
(***************************************************************************)
AcceptedBuys(symbol) == {j \in Events : IsBuy(j) /\ trace[j].symbol = symbol /\ trace[j].ok}
RECURSIVE BoughtQty(_)
BoughtQty(js) ==
    IF js = {} THEN 0
    ELSE LET j == CHOOSE x \in js : TRUE IN trace[j].qty + BoughtQty(js \ {j})
LastOf(js) == CHOOSE j \in js : \A k \in js : k <= j
\* The pending entry of the symbol is neither confirmed by the quantity `real` nor
\* timed out.
StillPending(symbol, real) ==
    /\ symbol \in DOMAIN pending_buys
    /\ real <= pending_buys[symbol].initial_qty
    /\ now - pending_buys[symbol].time <= PendingTimeout

\* C26: during and after the TWAP slices of a run, while the pending buys of a queued
\* symbol are neither confirmed nor timed out, get_virtual_qty(symbol, real) is real
\* plus the quantities of all the buy orders of the run that were accepted for it.
C26_VirtualQtyCountsAllSlices ==
    (SP.at \in {"D", "Cend"}) =>
       \A k \in 1..Len(loc.buy_list) :
          LET symbol == loc.buy_list[k].symbol
              real == loc.buy_list[k].qty
          IN StillPending(symbol, real) =>
                get_virtual_qty(Mgr, symbol, real, now).val
                   = real + BoughtQty(AcceptedBuys(symbol))

\* What the code keeps: real plus the quantity of the last accepted order alone.
VirtualQtyCountsLastSlice ==
    (SP.at \in {"D", "Cend"}) =>
       \A k \in 1..Len(loc.buy_list) :
          LET symbol == loc.buy_list[k].symbol
              real == loc.buy_list[k].qty
          IN (StillPending(symbol, real) /\ AcceptedBuys(symbol) /= {}) =>
                get_virtual_qty(Mgr, symbol, real, now).val
                   = real + trace[LastOf(AcceptedBuys(symbol))].qty

(***************************************************************************)
(* C27.  The queued amounts against the buyable cash.                      *)
(***************************************************************************)
RECURSIVE QueuedAmount2(_)
QueuedAmount2(buy_list) ==
    IF buy_list = << >> THEN 0 ELSE Head(buy_list).amount2 + QueuedAmount2(Tail(buy_list))

\* C27: in a Closing-Decision pass the amounts of the queued buy intents sum to no
\* more than the buyable cash fetched at the head of the iteration.
C27_QueuedWithinCash ==
    ("C" \in loc.ran) => QueuedAmount2(loc.buy_list) <= 2 * loc.cash

\* What the sizing does bound: each intent by the target allocation, so the sum by
\* the equity (cash plus priced holdings) the pass computed.
QueuedWithinEquity ==
    ("C" \in loc.ran) =>
       /\ \A k \in 1..Len(loc.buy_list) : loc.buy_list[k].amount2 <= loc.target_alloc2
       /\ QueuedAmount2(loc.buy_list) <= 2 * loc.target_alloc2

(***************************************************************************)
(* C28.  The operator's manual sell beside Regular-Monitoring.  In Phase B *)
(* the ignore test and the rest of a symbol's pass are separate steps of   *)
(* the strategy thread: the test returns under the lock, the price query   *)
(* and the order follow outside it.                                        *)
(***************************************************************************)
ManualBalances == {[holdings |-> Put(EmptyDict, "TQQQ", Lot(1)), cash |-> 0]}


\* if status_mgr.is_sync_ignored(sym): continue
ManualCheck ==
    /\ SP.at = "B"
    /\ Goto([at |-> "Bact", idx |-> SP.idx,
             ignored |-> is_sync_ignored(Mgr, TARGETS[SP.idx].symbol, now)])
    /\ UNCHANGED <<data, disk, pending_buys, now, lock, loc, prev_holdings_snapshot, ticks,
                   trace, obsVars>>

\* ... the rest of the pass for the symbol, on the answer the test gave.
ManualAct ==
    /\ SP.at = "Bact"
    /\ PhaseBStep(SP.ignored,
                  IF SP.idx < Len(TARGETS) THEN [at |-> "B", idx |-> SP.idx + 1]
                  ELSE [at |-> "C0"])
    /\ UNCHANGED <<lock, loc, prev_holdings_snapshot, ticks, obsVars>>

\* TermuxApp.cmd_manual_sell(symbol), typed once by the operator.
cmd_manual_sell(symbol) ==
    /\ pc["operator"].at = "idle"
    /\ pc' = [pc EXCEPT !["operator"] = [at |-> "done"]]
    /\ \E b \in ManualBalances, curr \in MonitorPrices \cup {NoPrice}, c \in CancelOutcomes,
          ok \in BOOLEAN, o \in EngineSaves :
         IF symbol \notin DOMAIN b.holdings \/ curr = NoPrice
         THEN /\ ret' = [op |-> "manual_sell", symbol |-> symbol, ok |-> FALSE, at |-> now]
              /\ UNCHANGED <<data, disk, pending_buys, trace>>
         ELSE LET x == cancel_then_sell(trace, symbol, "manual", b.holdings[symbol].qty,
                                        MarketSell(curr), "manual", c, ok, now)
              IN /\ trace' = x.trace
                 /\ SetMgr(IF ~x.raised /\ x.ok
                           THEN set_ignore_sync(Mgr, symbol, IgnoreDuration, now, o)
                           ELSE Mgr)
                 /\ ret' = [op |-> "manual_sell", symbol |-> symbol,
                            ok |-> ~x.raised /\ x.ok, at |-> now]
    /\ UNCHANGED <<now, lock, loc, prev_holdings_snapshot, ticks, reads, epoch>>

NextManual ==
    \/ Begin /\ SessionGate(ManualBalances)
    \/ PhaseAGate
    \/ PhaseASym
    \/ PhaseADone
    \/ PhaseBGate
    \/ ManualCheck
    \/ ManualAct
    \/ PhaseCGate
    \/ EndTick
    \/ Catch
    \/ \E symbol \in Symbols : cmd_manual_sell(symbol)

SpecManual == InitMonitoring /\ [][NextManual]_vars

\* The orders a step adds to the observation.
OrdersAdded ==
    {j \in 1..Len(trace') : j > Len(trace) /\ trace'[j].e = "send_order"}

\* C28: once a manual sell of a symbol was accepted and its ignore window set, and
\* while that window is open, the strategy thread submits no sell for the symbol.
C28_NoSellAfterManualSell ==
    [][(ret.op = "manual_sell" /\ ret.ok /\ now < ret.at + IgnoreDuration)
         => \A j \in OrdersAdded :
               ~(trace'[j].side = "SELL" /\ trace'[j].symbol = ret.symbol)]_vars

\* What the ignore test does give: a pass whose test came after the manual sell
\* submits nothing for the symbol.
NoSellWhenTestedAfterManualSell ==
    [][(ret.op = "manual_sell" /\ ret.ok /\ now < ret.at + IgnoreDuration
          /\ SP.at = "Bact" /\ SP.ignored)
         => OrdersAdded = {}]_vars

(***************************************************************************)
(* SpecCalls: the StatusManager calls of the two threads, statement by     *)
(* statement.  A thread makes a call, blocks in `with self.lock` until the *)
(* lock is free, runs the body to one of its exits (a return inside the    *)
(* block, the end of the block, or an exception raised in it), and leaves  *)
(* the block, which releases the lock whatever the exit was.  The holder   *)
(* of the lock is never descheduled for ever (weak fairness of the body    *)
(* and of the release); a thread blocked in acquire() gets the lock once   *)
(* it is free often enough (strong fairness: the strategy thread sleeps    *)
(* 60 s between its bursts of calls, the operator waits for input).        *)
(***************************************************************************)

CallsOf(t) ==
    IF t = "operator"
    THEN {[op |-> "set_ignore_sync", symbol |-> s] : s \in {TARGETS[1].symbol}}
    ELSE {[op |-> "update_max_profit", symbol |-> s, rate |-> 200] : s \in {TARGETS[1].symbol}}
         \cup {[op |-> o, symbol |-> s] :
                 o \in {"get_max_profit", "reset_max_profit", "set_ignore_sync",
                        "is_sync_ignored", "record_pending_buy"},
                 s \in {TARGETS[1].symbol}}
         \cup {[op |-> "get_virtual_qty", symbol |-> s, current_qty |-> q] :
                 s \in {TARGETS[1].symbol}, q \in RealQtys}
         \cup {[op |-> "set_phase_a_done"], [op |-> "reset_daily"]}

InitCalls ==
    /\ lock = "free"
    /\ pc = [t \in Threads |-> Idle]
    /\ loc = NoLocals
    /\ prev_holdings_snapshot = EmptyDict
    /\ ticks = 0
    /\ trace = << >>
    /\ disk \in {Stored(DefaultData), Stored(Del(DefaultData, "max_profit"))}
    /\ data = _load(disk)
    /\ pending_buys = EmptyDict
    /\ now = 0
    /\ ret = NoCall
    /\ reads = EmptyDict
    /\ epoch = EmptyDict

\* The statement that ends the body of call c on manager m at time t.
ExitOf(m, c, t) ==
    CASE c.op = "get_max_profit" ->
           IF "max_profit" \in DOMAIN m.data THEN "return" ELSE "raise"
      [] c.op = "get_virtual_qty" ->
           IF c.symbol \notin DOMAIN m.pending_buys THEN "return_not_pending"
           ELSE IF c.current_qty > m.pending_buys[c.symbol].initial_qty THEN "return_synced"
           ELSE IF t - m.pending_buys[c.symbol].time > PendingTimeout THEN "return_timeout"
           ELSE "return_inflated"
      [] c.op = "is_sync_ignored" ->
           IF is_sync_ignored(m, c.symbol, t) THEN "return_true" ELSE "return_false"
      [] OTHER -> "end"

\* status_mgr.<op>(...): the thread reaches `with self.lock`.
Call(t, c) ==
    /\ pc[t].at = "idle"
    /\ c.op = "reset_daily" => ~Get(data, "daily_reset_done", FALSE)
    /\ pc' = [pc EXCEPT ![t] = [at |-> "wait", call |-> c]]
    /\ UNCHANGED <<data, disk, pending_buys, now, lock, obsVars, engVars>>

\* self.lock.acquire(): blocks while the lock is held.
Acquire(t) ==
    /\ pc[t].at = "wait"
    /\ lock = "free"
    /\ lock' = t
    /\ pc' = [pc EXCEPT ![t] = [at |-> "in", call |-> pc[t].call]]
    /\ UNCHANGED <<data, disk, pending_buys, now, obsVars, engVars>>

\* The body, up to its return, its last statement or its exception.
RunCall(t) ==
    /\ pc[t].at = "in"
    /\ lock = t
    /\ SetMgr(IF pc[t].call.op = "get_virtual_qty"
              THEN get_virtual_qty(Mgr, pc[t].call.symbol, pc[t].call.current_qty, now).m
              ELSE Body(Mgr, pc[t].call, "ok"))
    /\ pc' = [pc EXCEPT ![t] = [at |-> "out", call |-> pc[t].call,
                                 exit |-> ExitOf(Mgr, pc[t].call, now)]]
    /\ UNCHANGED <<now, lock, obsVars, engVars>>

\* time.sleep / input(): time passes between calls and while a thread waits.
Elapse ==
    /\ now <= PendingTimeout
    /\ now' = PendingTimeout + 1
    /\ UNCHANGED <<data, disk, pending_buys, lock, pc, obsVars, engVars>>

NextCalls ==
    \/ \E t \in Threads : \E c \in CallsOf(t) : Call(t, c)
    \/ \E t \in Threads : Acquire(t)
    \/ \E t \in Threads : RunCall(t)
    \/ \E t \in Threads : Leave(t)
    \/ MarkDailyResetDone
    \/ RearmDailyReset
    \/ Elapse

SpecCalls ==
    /\ InitCalls
    /\ [][NextCalls]_vars
    /\ \A t \in Threads : WF_vars(RunCall(t)) /\ WF_vars(Leave(t)) /\ SF_vars(Acquire(t))

InBlock(t) == pc[t].at \in {"in", "out"}
InCall(t) == pc[t].at \in {"wait", "in", "out"}

\* A thread holds the lock exactly while it is inside a `with self.lock` block.
HeldInsideBlockOnly == \A t \in Threads : (lock = t) <=> InBlock(t)

\* The lock changes hands only by a thread entering its block from the free lock
\* or leaving its block to the free lock.
AcquiredOnceReleasedOnce ==
    [][lock' /= lock =>
         \/ lock = "free" /\ lock' \in Threads /\ pc[lock'].at = "wait" /\ pc'[lock'].at = "in"
         \/ lock \in Threads /\ lock' = "free" /\ pc[lock].at = "out"
            /\ pc'[lock].at \notin {"wait", "in", "out"}]_vars

\* C29: any interleaving of StatusManager operations of the operator thread and
\* the strategy thread is deadlock-free and each operation is atomic with respect
\* to the others: an operation acquires the one lock exactly once, never while it
\* holds it, releases it on every exit path (the early returns of get_virtual_qty
\* included), and every call eventually returns.
C29_LockDisciplineAndReturn ==
    /\ []HeldInsideBlockOnly
    /\ AcquiredOnceReleasedOnce
    /\ \A t \in Threads : InCall(t) ~> ~InCall(t)

\* C29 witness: the strategy thread has left get_virtual_qty by an early return (the
\* balance caught up, or the entry timed out) and still holds the lock, while the
\* operator's set_ignore_sync is blocked on it.
C29_Witness ==
    /\ pc["strategy"].at = "out"
    /\ pc["strategy"].call.op = "get_virtual_qty"
    /\ pc["strategy"].exit \in {"return_synced", "return_timeout"}
    /\ lock = "strategy"
    /\ pc["operator"].at = "wait"

==============================================================================
